---- MODULE Spec2Model ----
(***************************************************************************)
(* DNC check with per-list caching and contact flagging                    *)
(* (ION-Web-Services/cadence_integration).                                 *)
(*                                                                         *)
(* The model covers the outbound-message webhook handler, checkDnc and its *)
(* two list checkers, the cadence_dnc_cache store, the tag-merging contact *)
(* update, the cleanup cron with its retention sweep, the token manager's  *)
(* getValidAccessToken and refreshAccessToken, the API proxy handler and   *)
(* the OAuth callback with revocation.  Several webhook invocations run    *)
(* concurrently; every await of the source is a separate step.  Time is    *)
(* counted in hours, in minutes for the token manager.                     *)
(***************************************************************************)
EXTENDS Integers, Sequences, FiniteSets, TLC

VARIABLES
    now,       \* wall clock, Date.now() in hours
    ticks,     \* number of clock advances so far
    env,       \* process.env: the two TTL settings (digit strings)
    cache,     \* rows of cadence_dnc_cache
    contact,   \* the CRM contact: phone, tags, dnd
    h,         \* per invocation: position and locals of handler/checkDnc
    flagged,   \* history: the contact has carried both DNC tags at some time
    cron,      \* the cleanup cron handler: position, locals, response
    recheck,   \* history, per list: the last cache write for it failed
    minute,    \* wall clock of the token manager, in minutes
    installations, \* cadence_installations: the tenant's row, if any
    g,         \* getValidAccessToken: position, locals and result
    unit,      \* the last call of a checker or log emitter: input and output
    px,        \* the API proxy handler: position, locals, response
    oc         \* the OAuth callback handler: position, locals, response

vars == <<now, ticks, env, cache, contact, h, flagged, cron, recheck,
          minute, installations, g, unit, px, oc>>

----------------------------------------------------------------------------
(* Bounds *)

MaxTicks == 2
TickSteps == {6}
MinuteSteps == {4}
MaxPhoneLen == 6
MaxInstalls == 3
Procs == {"h1", "h2"}

----------------------------------------------------------------------------
(* Values *)

Undefined == "undefined"
Null == "null"
NullTs == 0 - 1

DNC_TAG_USHEALTH == "DNC-USHEALTH"
DNC_TAG_NATIONAL == "DNC-NATIONAL"

PhoneA == <<"+", "1", "5", "5", "5", "1", "2", "3", "4", "5", "6", "7">>
PhoneB == <<"+", "1", "5", "5", "5", "7", "6", "5", "4", "3", "2", "1">>

\* Every phone of up to MaxPhoneLen characters over two digits.
PhoneChars == {"1", "2"}
Phones == UNION { [1..n -> PhoneChars] : n \in 1..MaxPhoneLen }

\* JavaScript values are written as strings: "true" and "false" are the two
\* booleans, Undefined and Null the two absent values.
True == "true"
False == "false"

\* JavaScript truthiness.
Falsy(v) == v \in {Undefined, Null, "", False}
Truthy(v) == ~Falsy(v)

\* a === b
StrictEq(a, b) == IF a = b THEN True ELSE False

\* v || d
OrElse(v, d) == IF Falsy(v) THEN d ELSE v

DigitVal(c) ==
    CASE c = "0" -> 0 [] c = "1" -> 1 [] c = "2" -> 2 [] c = "3" -> 3
      [] c = "4" -> 4 [] c = "5" -> 5 [] c = "6" -> 6 [] c = "7" -> 7
      [] c = "8" -> 8 [] c = "9" -> 9

RECURSIVE ParseInt(_)
\* parseInt(s, 10) of a digit string
ParseInt(s) ==
    IF Len(s) = 0 THEN 0
    ELSE 10 * ParseInt(SubSeq(s, 1, Len(s) - 1)) + DigitVal(s[Len(s)])

\* process.env.X || '12'
EnvOrDefault(s) == IF Len(s) = 0 THEN <<"1", "2">> ELSE s

BLACKLIST_TTL_HOURS == ParseInt(EnvOrDefault(env.DNC_CACHE_TTL_BLACKLIST_HOURS))
\* One TTL setting read for both lists.
NATIONAL_TTL_HOURS_Shared == ParseInt(EnvOrDefault(env.DNC_CACHE_TTL_BLACKLIST_HOURS))

NATIONAL_TTL_HOURS == ParseInt(EnvOrDefault(env.DNC_CACHE_TTL_NATIONAL_HOURS))

EnvTtlValues == {<<>>, <<"6">>}

\* An optional string is <<>> (undefined) or a one-element sequence holding
\* the string, itself a sequence of tokens.
Secret == <<"s3cret">>
CronSecrets == {<<>>, <<Secret>>}

----------------------------------------------------------------------------
(* Freshness evaluator *)

\* isFresh that trusts no entry: every list is queried in every round.
isFresh_NeverFresh(checkedAt, ttlHours) == FALSE

\* isFresh with an inclusive bound: an entry as old as the TTL still counts.
isFresh_Inclusive(checkedAt, ttlHours) ==
    IF checkedAt = NullTs THEN FALSE
    ELSE (now - checkedAt) <= ttlHours

\* isFresh with the comparison reversed.
isFresh_Reversed(checkedAt, ttlHours) ==
    IF checkedAt = NullTs THEN FALSE
    ELSE (now - checkedAt) >= ttlHours

isFresh(checkedAt, ttlHours) ==
    IF checkedAt = NullTs THEN FALSE
    ELSE (now - checkedAt) < ttlHours

----------------------------------------------------------------------------
(* List checkers: the remote response is an input, the checker normalises  *)
(* it.  kind is "ok" (2xx with a body), "http" (non-success status) or      *)
(* "throw" (transport failure).                                            *)

BlacklistResponses ==
    { [kind |-> "ok", isOnCompanyBlacklist |-> True],
      [kind |-> "ok", isOnCompanyBlacklist |-> False],
      [kind |-> "ok", isOnCompanyBlacklist |-> Undefined],
      [kind |-> "http", isOnCompanyBlacklist |-> Undefined],
      [kind |-> "throw", isOnCompanyBlacklist |-> Undefined] }

checkCompanyBlacklistAPI(resp) ==
    CASE resp.kind = "throw" ->
            [isOnList |-> False, error |-> "fetch failed"]
      [] resp.kind = "http" ->
            [isOnList |-> False, error |-> "API returned 500"]
      [] OTHER ->
            [isOnList |-> StrictEq(resp.isOnCompanyBlacklist, True), error |-> Undefined]

NationalResponses ==
    { [kind |-> "ok", canContact |-> False, reason |-> "registered", expiryDateUTC |-> "2027-01-01"],
      [kind |-> "ok", canContact |-> False, reason |-> Null, expiryDateUTC |-> Null],
      [kind |-> "ok", canContact |-> True, reason |-> "", expiryDateUTC |-> Null],
      [kind |-> "ok", canContact |-> Undefined, reason |-> Undefined, expiryDateUTC |-> Undefined],
      [kind |-> "http", canContact |-> Undefined, reason |-> Undefined, expiryDateUTC |-> Undefined],
      [kind |-> "throw", canContact |-> Undefined, reason |-> Undefined, expiryDateUTC |-> Undefined] }

\* The national checker leaving isOnList out of its error results.
checkNationalDNCAPI_NoFlagOnError(resp) ==
    CASE resp.kind \in {"throw", "http"} ->
            [isOnList |-> Undefined, reason |-> Undefined, expiry |-> Undefined,
             error |-> "failed"]
      [] OTHER ->
            [isOnList |-> StrictEq(resp.canContact, False),
             reason |-> OrElse(resp.reason, Undefined),
             expiry |-> OrElse(resp.expiryDateUTC, Undefined),
             error |-> Undefined]

checkNationalDNCAPI(resp) ==
    CASE resp.kind = "throw" ->
            [isOnList |-> False, reason |-> Undefined, expiry |-> Undefined,
             error |-> "fetch failed"]
      [] resp.kind = "http" ->
            [isOnList |-> False, reason |-> Undefined, expiry |-> Undefined,
             error |-> "API returned 500"]
      [] OTHER ->
            [isOnList |-> StrictEq(resp.canContact, False),
             reason |-> OrElse(resp.reason, Undefined),
             expiry |-> OrElse(resp.expiryDateUTC, Undefined),
             error |-> Undefined]

----------------------------------------------------------------------------
(* Cache store (cadence_dnc_cache, phone UNIQUE)                            *)

\* Column defaults of the table for a newly inserted row (updated_at
\* defaults to CURRENT_TIMESTAMP; id and created_at are never read).
DefaultRow(phone) ==
    [phone |-> phone,
     is_company_blacklist |-> False,
     blacklist_checked_at |-> NullTs,
     is_national_dnc |-> False,
     national_dnc_reason |-> Null,
     national_dnc_expiry |-> Null,
     national_checked_at |-> NullTs,
     updated_at |-> now]

\* An upsert that never clears a list flag once it is true.
MergeRow_StickyFlag(row, payload) ==
    [f \in DOMAIN row |->
        IF f \in DOMAIN payload
              /\ ~(f \in {"is_company_blacklist", "is_national_dnc"} /\ row[f] = True)
        THEN payload[f] ELSE row[f]]

\* An upsert that resets the columns missing from the payload to defaults.
MergeRow_AllColumns(row, payload) ==
    [f \in DOMAIN row |->
        IF f \in DOMAIN payload THEN payload[f] ELSE DefaultRow(payload.phone)[f]]

\* The columns named in the payload replace the row's, the others stay.
MergeRow(row, payload) ==
    [f \in DOMAIN row |-> IF f \in DOMAIN payload THEN payload[f] ELSE row[f]]

\* An insert that ignores the conflict on phone.
Upsert_InsertOnly(rows, payload) ==
    rows \cup { MergeRow(DefaultRow(payload.phone), payload) }

\* .upsert(payload, { onConflict: 'phone' })
Upsert(rows, payload) ==
    IF \E r \in rows : r.phone = payload.phone
    THEN { IF r.phone = payload.phone THEN MergeRow(r, payload) ELSE r : r \in rows }
    ELSE rows \cup { MergeRow(DefaultRow(payload.phone), payload) }

\* .select('*').eq('phone', phone).single(): one row, or PGRST116 otherwise
SelectSingle(rows, phone) ==
    LET m == { r \in rows : r.phone = phone }
    IN  IF Cardinality(m) = 1 THEN m ELSE {}

\* dncCache.get answering from the row it could not read: the phone's row
\* as of now, whatever the outcome of the call.
dncCacheGet_IgnoresError(rows, phone, outcome) == SelectSingle(rows, phone)

\* dncCache.get: the row as a set of at most one element ({} is null).
\* outcome is "ok", "error" (error object returned) or "throw".
dncCacheGet(rows, phone, outcome) ==
    IF outcome = "ok" THEN SelectSingle(rows, phone) ELSE {}

\* updateBlacklist sending a whole entry, the national columns at defaults.
BlacklistPayload_FullEntry(phone, isOnBlacklist) ==
    [DefaultRow(phone) EXCEPT !.is_company_blacklist = isOnBlacklist,
                              !.blacklist_checked_at = now]

\* The payload dncCache.updateBlacklist builds at the time of the call.
BlacklistPayload(phone, isOnBlacklist) ==
    [phone |-> phone,
     is_company_blacklist |-> isOnBlacklist,
     blacklist_checked_at |-> now,
     updated_at |-> now]

\* The payload dncCache.updateNational builds at the time of the call.
NationalPayload(phone, isOnNational, reason, expiry) ==
    [phone |-> phone,
     is_national_dnc |-> isOnNational,
     national_dnc_reason |-> OrElse(reason, Null),
     national_dnc_expiry |-> OrElse(expiry, Null),
     national_checked_at |-> now,
     updated_at |-> now]

\* An update helper without its try/catch: a thrown exception escapes.
updateOutcome_Uncaught(outcome) ==
    CASE outcome = "ok" -> True
      [] outcome = "error" -> False
      [] OTHER -> "rejected"

\* What an update helper resolves to: true, false, or "rejected" when an
\* exception escapes it.  Both helpers catch everything.
updateOutcome(outcome) ==
    CASE outcome = "ok" -> True
      [] outcome = "error" -> False
      [] OTHER -> False

StoreOutcomes == {"ok", "error", "throw"}

\* The retention window the cleanup cron passes to deleteOldEntries, in days.
RETENTION_DAYS == 30

Days(d) == 24 * d

\* cutoffDate: olderThanDays days before now.
Cutoff(olderThanDays) == now - Days(olderThanDays)

\* .lt(column, value): a NULL column satisfies no comparison.
Lt(v, bound) == v # NullTs /\ v < bound

\* The sweep's filter matching a row as soon as one timestamp is old.
DeleteMatches_Either(row, cutoff) ==
    Lt(row.blacklist_checked_at, cutoff) \/ Lt(row.national_checked_at, cutoff)

\* .lt('blacklist_checked_at', cutoff).lt('national_checked_at', cutoff)
DeleteMatches(row, cutoff) ==
    Lt(row.blacklist_checked_at, cutoff) /\ Lt(row.national_checked_at, cutoff)

\* dncCache.deleteOldEntries: the rows left and the count returned.  A
\* failed call deletes nothing and returns 0.
deleteOldEntries(rows, olderThanDays, outcome) ==
    LET gone == IF outcome = "ok"
                THEN { r \in rows : DeleteMatches(r, Cutoff(olderThanDays)) }
                ELSE {}
    IN  [rows |-> rows \ gone, count |-> Cardinality(gone)]

\* dncCache.getStats: zeros on any failure.
getStats(rows, outcome) ==
    IF outcome = "ok"
    THEN [total |-> Cardinality(rows),
          blacklisted |-> Cardinality({ r \in rows : Truthy(r.is_company_blacklist) }),
          nationalDnc |-> Cardinality({ r \in rows : Truthy(r.is_national_dnc) })]
    ELSE [total |-> 0, blacklisted |-> 0, nationalDnc |-> 0]

----------------------------------------------------------------------------
(* Contact flagging gateway helpers *)

RECURSIVE Uniq(_, _)
\* [...new Set(seq)]: first occurrences, in order.  acc is the part done.
Uniq(acc, seq) ==
    IF Len(seq) = 0 THEN acc
    ELSE IF \E i \in 1..Len(acc) : acc[i] = Head(seq)
         THEN Uniq(acc, Tail(seq))
         ELSE Uniq(Append(acc, Head(seq)), Tail(seq))

\* The merge without the Set: plain concatenation.
MergeTags_Concat(existingTags, newTags) == existingTags \o newTags

\* The merge keeping the tags read and dropping the new ones.
MergeTags_ExistingOnly(existingTags, newTags) == Uniq(<<>>, existingTags)

\* mergedTags = [...new Set([...existingTags, ...newTags])]
MergeTags(existingTags, newTags) == Uniq(<<>>, existingTags \o newTags)

\* existingTags.includes(tag)
Includes(tags, tag) == \E i \in 1..Len(tags) : tags[i] = tag

TagSet(tags) == { tags[i] : i \in 1..Len(tags) }

\* getExistingTags: the contact's tags on a 2xx answer, [] on any failure.
getExistingTags(crmTags, outcome) ==
    IF outcome = "ok" THEN crmTags ELSE <<>>

\* Step 4 skipping as soon as either DNC tag is present.
AlreadyTagged_Either(existingTags) ==
    Includes(existingTags, DNC_TAG_USHEALTH) \/ Includes(existingTags, DNC_TAG_NATIONAL)

\* Step 4 of the handler: both DNC tags are already on the fetched contact.
AlreadyTagged(existingTags) ==
    Includes(existingTags, DNC_TAG_USHEALTH) /\ Includes(existingTags, DNC_TAG_NATIONAL)

\* Step 6 pushing each tag for the other list's flag.
VerdictTags_Swapped(isBlacklist, isNationalDnc) ==
    (IF Truthy(isNationalDnc) THEN <<DNC_TAG_USHEALTH>> ELSE <<>>)
    \o (IF Truthy(isBlacklist) THEN <<DNC_TAG_NATIONAL>> ELSE <<>>)

\* Step 6 of the handler: the tags pushed for a verdict.
VerdictTags(isBlacklist, isNationalDnc) ==
    (IF Truthy(isBlacklist) THEN <<DNC_TAG_USHEALTH>> ELSE <<>>)
    \o (IF Truthy(isNationalDnc) THEN <<DNC_TAG_NATIONAL>> ELSE <<>>)

\* `***${phone.slice(-4)}`
RedactPhone(phone) ==
    <<"*", "*", "*">> \o
    (IF Len(phone) <= 4 THEN phone ELSE SubSeq(phone, Len(phone) - 3, Len(phone)))

\* The body of the PUT of updateContactDNC; a channel's setting is written
\* as its status.
PutBody(mergedTags) ==
    [dnd |-> TRUE,
     dndSettings |-> [SMS |-> "active", Call |-> "active"],
     tags |-> mergedTags]

\* dndSettings of a contact no channel of which has been set.
NoDndSettings == [SMS |-> Undefined, Call |-> Undefined]

HttpOutcomes == {"ok", "http", "throw"}

----------------------------------------------------------------------------
(* Token manager: expiry helpers and the cadence_installations store.      *)
(* Times are in minutes; a token is written as the number of refreshes     *)
(* that produced it.                                                       *)

\* expires_in granted by the OAuth server (86399 s).
TOKEN_LIFETIME_MINUTES == 1440
\* bufferMinutes, the default of isTokenExpiringSoon.
REFRESH_BUFFER_MINUTES == 5

calculateTokenExpiration(expiresIn) == minute + expiresIn

isTokenExpiringSoon(expiresAt, bufferMinutes) == minute >= expiresAt - bufferMinutes

\* isTokenExpired with a strict comparison: a token is still used in the
\* minute it expires.
isTokenExpired_Strict(expiresAt) == minute > expiresAt

isTokenExpired(expiresAt) == minute >= expiresAt

DbOutcomes == {"ok", "error"}
OAuthOutcomes == {"ok", "http", "invalid", "throw"}

\* cadenceInstallations.getByUserAndLocation: the active row of the tenant,
\* null (<<>>) when there is none or the query fails.
getByUserAndLocation(rows, outcome) ==
    IF outcome = "ok" /\ rows # <<>> /\ rows[1].is_active THEN rows ELSE <<>>

\* updateTokens reporting true whatever the outcome of the query.
updateTokens_IgnoresError(rows, tokens, outcome) ==
    IF outcome # "ok" THEN [rows |-> rows, ok |-> TRUE]
    ELSE [rows |-> IF rows = <<>> THEN rows
                   ELSE <<[rows[1] EXCEPT !.access_token = tokens.access_token,
                                          !.refresh_token = tokens.refresh_token,
                                          !.expires_at = tokens.expires_at]>>,
          ok |-> TRUE]

\* cadenceInstallations.updateTokens: the tenant's row, active or not, takes
\* the new tokens; false when the query fails.
updateTokens(rows, tokens, outcome) ==
    IF outcome # "ok" THEN [rows |-> rows, ok |-> FALSE]
    ELSE [rows |-> IF rows = <<>> THEN rows
                   ELSE <<[rows[1] EXCEPT !.access_token = tokens.access_token,
                                          !.refresh_token = tokens.refresh_token,
                                          !.expires_at = tokens.expires_at]>>,
          ok |-> TRUE]

\* GHLAPI.refreshToken: the token response on a well-formed 2xx answer,
\* null (<<>>) otherwise.  The server issues the successor of the token
\* family presented.
refreshToken(refresh_token, outcome) ==
    IF outcome = "ok"
    THEN <<[access_token |-> refresh_token + 1,
            refresh_token |-> refresh_token + 1,
            expires_in |-> TOKEN_LIFETIME_MINUTES]>>
    ELSE <<>>

\* getValidAccessToken.  installation is the row read first, expired the
\* branch taken, current and tokens the locals of refreshAccessToken.
\* result is <<>> for null.  source is history: expiry of the row the
\* returned token came from and the minute that row was read; readAt is
\* the minute the first row was read.  failed is history: the refresh
\* reported success: false or no installation.  success is history: the
\* success field refreshAccessToken resolved with, <<>> when it was not
\* called.
GInit ==
    [pc |-> "idle",
     installation |-> <<>>,
     expired |-> FALSE,
     readAt |-> NullTs,
     current |-> <<>>,
     tokens |-> <<>>,
     result |-> <<>>,
     source |-> <<>>,
     failed |-> FALSE,
     success |-> <<>>]

ReturnToken(r, row, readAt) ==
    [r EXCEPT !.pc = "returned",
              !.result = <<row.access_token>>,
              !.source = <<[expires_at |-> row.expires_at, readAt |-> readAt]>>]

ReturnNull(r) == [r EXCEPT !.pc = "returned", !.result = <<>>]

\* The continuation of getValidAccessToken once refreshAccessToken has
\* resolved with success and the installation it re-read (<<>> when none).
RefreshDone(r, success, refreshed, readAt) ==
    LET rs == [r EXCEPT !.success = <<success>>]
    IN  IF r.expired
        THEN IF ~success \/ refreshed = <<>>
             THEN ReturnNull([rs EXCEPT !.failed = TRUE])
             ELSE ReturnToken(rs, refreshed[1], readAt)
        ELSE IF success /\ refreshed # <<>>
             THEN ReturnToken(rs, refreshed[1], readAt)
             ELSE ReturnToken([rs EXCEPT !.failed = TRUE],
                              r.installation[1], r.readAt)

\* cadenceInstallations.create: a plain insert.  The table is
\* UNIQUE(user_id, location_id), so the insert fails when the tenant has a
\* row, active or not; null (<<>>) on any error.
create(rows, installation, outcome) ==
    IF outcome # "ok" \/ rows # <<>>
    THEN [rows |-> rows, data |-> <<>>]
    ELSE [rows |-> <<installation>>, data |-> <<installation>>]

\* cadenceInstallations.deactivate: the tenant's row is marked inactive;
\* false when the query fails.
deactivate(rows, outcome) ==
    IF outcome # "ok" THEN [rows |-> rows, ok |-> FALSE]
    ELSE [rows |-> IF rows = <<>> THEN rows
                   ELSE <<[rows[1] EXCEPT !.is_active = FALSE]>>,
          ok |-> TRUE]

\* GHLAPI.exchangeCodeForTokens: the token response on a well-formed 2xx
\* answer, null (<<>>) otherwise.  family numbers the authorization.
exchangeCodeForTokens(family, outcome) ==
    IF outcome = "ok"
    THEN <<[access_token |-> family,
            refresh_token |-> family,
            expires_in |-> TOKEN_LIFETIME_MINUTES]>>
    ELSE <<>>

\* The API proxy handler.  token and expires_at are the access token the
\* request is sent with and its expiry; resp is the status answered, <<>>
\* before.  History: requests counts the calls of makeRequest, rejected
\* is set when the provider answered 401 to an expired token.
PxInit ==
    [pc |-> "idle",
     token |-> <<>>,
     expires_at |-> NullTs,
     requests |-> 0,
     rejected |-> FALSE,
     resp |-> <<>>]

\* The OAuth callback handler.  tokens are the exchanged tokens with their
\* calculated expiry, existing the row found, redirect the page answered
\* (<<>> before).  History: before is the tenant's rows when the callback
\* looked the installation up, dbFailed is set when a query of the callback
\* failed, count is the number of callbacks received so far.
OcInit ==
    [pc |-> "idle",
     tokens |-> <<>>,
     existing |-> <<>>,
     before |-> <<>>,
     dbFailed |-> FALSE,
     count |-> 0,
     redirect |-> <<>>]

----------------------------------------------------------------------------
(* Per-invocation state *)

NoResp == <<>>

Response(status, skipped, reason) ==
    <<[status |-> status, skipped |-> skipped, reason |-> reason]>>

HInit ==
    [pc |-> "idle",
     type |-> Undefined,
     installation |-> Undefined,
     accessToken |-> Undefined,
     fetched |-> Undefined,
     late |-> FALSE,
     phone |-> <<>>,
     cached |-> {},
     readFailed |-> FALSE,
     blacklistFresh |-> FALSE,
     nationalFresh |-> FALSE,
     isBlacklist |-> False,
     isNationalDnc |-> False,
     nationalDncReason |-> Undefined,
     nationalDncExpiry |-> Undefined,
     blCall |-> "none",
     natCall |-> "none",
     blResult |-> <<>>,
     natResult |-> <<>>,
     blPayload |-> <<>>,
     natPayload |-> <<>>,
     blWrite |-> "none",
     natWrite |-> "none",
     result |-> <<>>,
     log |-> <<>>,
     newTags |-> <<>>,
     tagsRead |-> <<>>,
     mergedTags |-> <<>>,
     crmBefore |-> <<>>,
     updated |-> "none",
     puts |-> 0,
     io |-> {},
     resp |-> NoResp]

\* readFailed is history: the cache read of the round failed.
\* blResult and natResult are the results the two checkers resolved with.
\* late is history: the delivery arrived after the contact had carried both
\* DNC tags.  io is history: the remote operations the invocation issued.
\* type is webhookData.type of a POST delivery.  installation is what the
\* lookup of the location's active installation found: Null, or "row".
\* accessToken is what getValidAccessToken returned: Null, or "token" for a
\* bearer token.  fetched is the outcome of the contact fetch.  puts is
\* history: the number of PUT requests the invocation has issued.

\* recheck, per list: "no"; "stale" when the last write for the list failed
\* in a round that had read the cache; "unread" when it failed in a round
\* whose cache read had failed; "no" again once the next checkDnc has read.
NoRecheck == [blacklist |-> "no", national |-> "no"]
WriteNoted(outcome, readFailed) ==
    IF outcome = "ok" THEN "no" ELSE IF readFailed THEN "unread" ELSE "stale"

\* What is remembered of a checker's result: the flag, and whether the
\* error field was populated.
Settled(result) == [isOnList |-> result.isOnList, failed |-> result.error # Undefined]

\* cacheStatus that reports a hit as soon as one list was fresh.
CacheStatus_EitherHit(blacklistFresh, nationalFresh) ==
    IF blacklistFresh \/ nationalFresh THEN "hit" ELSE "miss"

\* cacheStatus of checkDnc, from the two freshness booleans.
CacheStatus(blacklistFresh, nationalFresh) ==
    IF blacklistFresh /\ nationalFresh THEN "hit"
    ELSE IF blacklistFresh \/ nationalFresh THEN "partial"
    ELSE "miss"

DncLog(phone, cacheStatus, blCached, natCached, isBl, isNat) ==
    [event |-> "dnc_check",
     phone |-> RedactPhone(phone),
     cache_status |-> cacheStatus,
     blacklist_cached |-> blCached,
     national_cached |-> natCached,
     is_blacklist |-> isBl,
     is_national_dnc |-> isNat]

\* Steps 4-6 of checkDnc (status, result, log) followed by the handler's
\* steps 5-6 up to its next await.  r is the invocation's record once every
\* triggered call has settled.
ReturnVerdict(r) ==
    LET res == [isBlacklist |-> r.isBlacklist,
                isNationalDnc |-> r.isNationalDnc,
                nationalDncReason |-> OrElse(r.nationalDncReason, Undefined),
                nationalDncExpiry |-> OrElse(r.nationalDncExpiry, Undefined),
                blacklistFromCache |-> r.blacklistFresh,
                nationalFromCache |-> r.nationalFresh]
        lg == DncLog(r.phone, CacheStatus(r.blacklistFresh, r.nationalFresh),
                     res.blacklistFromCache, res.nationalFromCache,
                     res.isBlacklist, res.isNationalDnc)
        isOnAnyList == OrElse(res.isBlacklist, res.isNationalDnc)
        r1 == [r EXCEPT !.result = <<res>>, !.log = <<lg>>]
    IN  IF Truthy(isOnAnyList)
        THEN [r1 EXCEPT !.pc = "getExistingTags",
                        !.newTags = VerdictTags(res.isBlacklist, res.isNationalDnc)]
        ELSE [r1 EXCEPT !.pc = "responded",
                        !.resp = Response(200, FALSE, "clean")]

\* The handler's catch block.
InternalError(r) ==
    [r EXCEPT !.pc = "responded", !.resp = Response(500, FALSE, "error")]

\* checkDnc has returned and its verdict has been consumed by step 6: its
\* locals, the verdict and the emitted log record are no longer held.
LeaveCheckDnc(r) ==
    [r EXCEPT !.cached = {}, !.readFailed = FALSE,
              !.blacklistFresh = FALSE, !.nationalFresh = FALSE,
              !.isBlacklist = False, !.isNationalDnc = False,
              !.nationalDncReason = Undefined, !.nationalDncExpiry = Undefined,
              !.blCall = "none", !.natCall = "none",
              !.blResult = <<>>, !.natResult = <<>>,
              !.blPayload = <<>>, !.natPayload = <<>>,
              !.blWrite = "none", !.natWrite = "none",
              !.result = <<>>, !.log = <<>>]

\* Promise.all over both chains whether or not they were started: a list
\* served from the cache is waited for as well.
AllSettled_BothChains(r) == r.blCall = "settled" /\ r.natCall = "settled"

\* The cache writes not awaited: a chain counts as settled once its checker
\* has resolved.
AllSettled_WritesNotAwaited(r) ==
    r.blCall \in {"none", "writing", "settled"} /\ r.natCall \in {"none", "writing", "settled"}

\* Every call triggered by the invocation has settled.
AllSettled(r) == r.blCall \in {"none", "settled"} /\ r.natCall \in {"none", "settled"}

\* The cleanup cron handler.  before is history: the rows the store held
\* when the delete ran; swept is history: the store executed the delete;
\* authorization is history: the Authorization header of the request.
CronInit ==
    [pc |-> "idle",
     authorization |-> <<>>,
     before |-> {},
     swept |-> FALSE,
     deletedCount |-> 0,
     resp |-> NoResp]

\* body is <<>> for an error answer, the success body otherwise.
CronResponse(status, body) == <<[status |-> status, body |-> body]>>

RECURSIVE RemoveFirst(_, _)
\* str.replace(tok, ''): the first occurrence of tok is removed.
RemoveFirst(str, tok) ==
    IF Len(str) = 0 THEN str
    ELSE IF Head(str) = tok THEN Tail(str)
    ELSE <<Head(str)>> \o RemoveFirst(Tail(str), tok)

\* req.headers['authorization']?.replace('Bearer ', '')
CronSecretOf(header) ==
    IF header = <<>> THEN <<>> ELSE <<RemoveFirst(header[1], "Bearer ")>>

----------------------------------------------------------------------------
(* Inputs of the environment *)

\* Authorization headers sent to the cron endpoint: none, the secret with
\* and without the Bearer prefix, a wrong secret.
CronAuthHeaders ==
    { <<>>, <<<<"Bearer ", "s3cret">>>>, <<<<"s3cret">>>>, <<<<"Bearer ", "wrong">>>> }

\* Requests sent to the API proxy: the method, whether an endpoint path
\* and whether the user and location ids are given.
ProxyRequests ==
    [method : {"OPTIONS", "GET", "POST", "TRACE"}, endpoint : BOOLEAN, ids : BOOLEAN]

\* Requests sent to the OAuth callback: the method, whether the provider
\* reports an error and whether an authorization code is given.
CallbackRequests == [method : {"GET", "POST"}, error : BOOLEAN, code : BOOLEAN]

\* Every request shape and every outcome of every remote call.
AnyInput ==
    [methods |-> {"POST", "GET"},
     types |-> {"OutboundMessage", "ContactCreate"},
     valid |-> BOOLEAN,
     contactFetch |-> HttpOutcomes,
     store |-> StoreOutcomes,
     blacklist |-> BlacklistResponses,
     national |-> NationalResponses,
     tagRead |-> HttpOutcomes,
     contactPut |-> HttpOutcomes,
     cronMethods |-> {"POST", "GET", "PUT"},
     cronAuth |-> CronAuthHeaders,
     db |-> DbOutcomes,
     oauth |-> OAuthOutcomes,
     phones |-> Phones,
     proxy |-> ProxyRequests,
     upstream |-> HttpOutcomes,
     callback |-> CallbackRequests]

\* Well-formed deliveries and a working store; the list checkers answer or
\* fail, the read of the contact's tags succeeds or fails.
NominalInput ==
    [methods |-> {"POST"},
     types |-> {"OutboundMessage"},
     valid |-> {TRUE},
     contactFetch |-> {"ok"},
     store |-> {"ok"},
     blacklist |-> { r \in BlacklistResponses :
                       r.kind = "throw" \/ r.isOnCompanyBlacklist \in {True, False} },
     national |-> { r \in NationalResponses :
                      r.kind = "throw" \/ r.canContact = True \/ r.reason = "registered" },
     tagRead |-> {"ok", "http"},
     contactPut |-> {"ok"},
     cronMethods |-> {"GET"},
     cronAuth |-> {<<<<"Bearer ", "s3cret">>>>},
     db |-> {"ok"},
     oauth |-> {"ok"},
     phones |-> {PhoneA},
     proxy |-> { q \in ProxyRequests : q.method = "GET" /\ q.endpoint /\ q.ids },
     upstream |-> {"ok"},
     callback |-> { q \in CallbackRequests : q.method = "GET" /\ ~q.error /\ q.code }]

----------------------------------------------------------------------------
(* Initial state *)

Init ==
    /\ now = 0
    /\ ticks = 0
    /\ env \in [DNC_CACHE_TTL_BLACKLIST_HOURS : EnvTtlValues,
                DNC_CACHE_TTL_NATIONAL_HOURS : EnvTtlValues,
                CRON_SECRET : {<<Secret>>}]
    /\ cache = {}
    /\ contact \in [phone : {PhoneA, <<>>}, tags : {<<"vip">>}, dnd : {FALSE},
                    dndSettings : {NoDndSettings}]
    /\ h = [p \in Procs |-> HInit]
    /\ flagged = FALSE
    /\ cron = CronInit
    /\ recheck = NoRecheck
    /\ minute = 0
    /\ installations = <<>>
    /\ g = GInit
    /\ unit = <<>>
    /\ px = PxInit
    /\ oc = OcInit

----------------------------------------------------------------------------
(* Webhook handler *)

\* The handler going on to fetch the contact without an access token.
Receive_GoesOnWithoutToken(p, E) ==
    /\ h[p].pc = "idle"
    /\ \E method \in E.methods, type \in E.types,
          hasIds \in E.valid, installation \in E.valid, accessToken \in E.valid :
          h' = [h EXCEPT ![p] =
                  IF method # "POST"
                  THEN [@ EXCEPT !.pc = "responded",
                                 !.resp = Response(405, FALSE, "method")]
                  ELSE IF type # "OutboundMessage"
                  THEN [@ EXCEPT !.pc = "responded", !.type = type,
                                 !.resp = Response(200, TRUE, Undefined)]
                  ELSE IF ~hasIds
                  THEN [@ EXCEPT !.pc = "responded", !.type = type,
                                 !.resp = Response(400, FALSE, "missing")]
                  ELSE IF ~installation
                  THEN [@ EXCEPT !.pc = "responded", !.type = type,
                                 !.installation = Null,
                                 !.resp = Response(200, TRUE, "no_installation")]
                  ELSE [@ EXCEPT !.pc = "fetchContact", !.type = type,
                                 !.installation = "row",
                                 !.accessToken = IF accessToken THEN "token" ELSE Null,
                                 !.late = flagged]]
    /\ UNCHANGED <<now, ticks, env, cache, contact, flagged, cron, recheck,
                 minute, installations, g, unit, px, oc>>

\* The request reaches the handler: method and event-type checks, required
\* fields, installation lookup and access token (steps 1 and 2).
Receive(p, E) ==
    /\ h[p].pc = "idle"
    /\ \E method \in E.methods, type \in E.types,
          hasIds \in E.valid, installation \in E.valid, accessToken \in E.valid :
          h' = [h EXCEPT ![p] =
                  IF method # "POST"
                  THEN [@ EXCEPT !.pc = "responded",
                                 !.resp = Response(405, FALSE, "method")]
                  ELSE IF type # "OutboundMessage"
                  THEN [@ EXCEPT !.pc = "responded", !.type = type,
                                 !.resp = Response(200, TRUE, Undefined)]
                  ELSE IF ~hasIds
                  THEN [@ EXCEPT !.pc = "responded", !.type = type,
                                 !.resp = Response(400, FALSE, "missing")]
                  ELSE IF ~installation
                  THEN [@ EXCEPT !.pc = "responded", !.type = type,
                                 !.installation = Null,
                                 !.resp = Response(200, TRUE, "no_installation")]
                  ELSE IF ~accessToken
                  THEN [@ EXCEPT !.pc = "responded", !.type = type,
                                 !.installation = "row",
                                 !.accessToken = Null,
                                 !.resp = Response(200, TRUE, "no_token")]
                  ELSE [@ EXCEPT !.pc = "fetchContact", !.type = type,
                                 !.installation = "row",
                                 !.accessToken = "token",
                                 !.late = flagged]]
    /\ UNCHANGED <<now, ticks, env, cache, contact, flagged, cron, recheck,
                 minute, installations, g, unit, px, oc>>

\* Step 3 treating a failure status of the contact fetch as an error of the
\* handler.
FetchContact_FailureIsError(p, E) ==
    /\ h[p].pc = "fetchContact"
    /\ \E outcome \in E.contactFetch :
          h' = [h EXCEPT ![p] =
                  LET r == [@ EXCEPT !.io = @ \cup {"getContact"}, !.fetched = outcome]
                  IN  IF outcome = "throw" THEN InternalError(r)
                      ELSE IF outcome = "http" THEN InternalError(r)
                      ELSE IF Len(contact.phone) = 0
                      THEN [r EXCEPT !.pc = "responded",
                                     !.resp = Response(200, TRUE, "no_phone")]
                      ELSE IF AlreadyTagged(contact.tags)
                      THEN [r EXCEPT !.pc = "responded",
                                     !.phone = contact.phone,
                                     !.log = <<DncLog(contact.phone, "skipped_tagged",
                                                      FALSE, FALSE, True, True)>>,
                                     !.resp = Response(200, TRUE, "already_tagged")]
                      ELSE [r EXCEPT !.pc = "cacheGet",
                                     !.phone = contact.phone]]
    /\ UNCHANGED <<now, ticks, env, cache, contact, flagged, cron, recheck,
                 minute, installations, g, unit, px, oc>>

\* Step 3 (GET /contacts/:id) and step 4 (already-tagged check); when the
\* contact is to be checked, checkDnc starts and issues its cache read.
FetchContact(p, E) ==
    /\ h[p].pc = "fetchContact"
    /\ \E outcome \in E.contactFetch :
          h' = [h EXCEPT ![p] =
                  LET r == [@ EXCEPT !.io = @ \cup {"getContact"}, !.fetched = outcome]
                  IN  IF outcome = "throw" THEN InternalError(r)
                      ELSE IF outcome = "http"
                      THEN [r EXCEPT !.pc = "responded",
                                     !.resp = Response(200, TRUE, "contact_fetch_failed")]
                      ELSE IF Len(contact.phone) = 0
                      THEN [r EXCEPT !.pc = "responded",
                                     !.resp = Response(200, TRUE, "no_phone")]
                      ELSE IF AlreadyTagged(contact.tags)
                      THEN [r EXCEPT !.pc = "responded",
                                     !.phone = contact.phone,
                                     !.log = <<DncLog(contact.phone, "skipped_tagged",
                                                      FALSE, FALSE, True, True)>>,
                                     !.resp = Response(200, TRUE, "already_tagged")]
                      ELSE [r EXCEPT !.pc = "cacheGet",
                                     !.phone = contact.phone]]
    /\ UNCHANGED <<now, ticks, env, cache, contact, flagged, cron, recheck,
                 minute, installations, g, unit, px, oc>>

----------------------------------------------------------------------------
(* checkDnc *)

\* Steps 1-3: the cache read settles, freshness is decided per list, the
\* verdict is initialised from the row and the stale lists' checkers are
\* called.  With nothing to call the verdict is returned at once.
CacheGet(p, E) ==
    /\ h[p].pc = "cacheGet"
    /\ \E outcome \in E.store :
          h' = [h EXCEPT ![p] =
                  LET cached == dncCacheGet(cache, h[p].phone, outcome)
                      row == CHOOSE c \in cached \cup {DefaultRow(h[p].phone)} :
                                cached # {} => c \in cached
                      blacklistFresh ==
                          IF cached # {}
                          THEN isFresh(row.blacklist_checked_at, BLACKLIST_TTL_HOURS)
                          ELSE FALSE
                      nationalFresh ==
                          IF cached # {}
                          THEN isFresh(row.national_checked_at, NATIONAL_TTL_HOURS)
                          ELSE FALSE
                      r == [@ EXCEPT
                              !.cached = cached,
                              !.readFailed = (outcome # "ok"),
                              !.blacklistFresh = blacklistFresh,
                              !.nationalFresh = nationalFresh,
                              !.isBlacklist =
                                  IF cached # {} THEN OrElse(row.is_company_blacklist, False)
                                  ELSE False,
                              !.isNationalDnc =
                                  IF cached # {} THEN OrElse(row.is_national_dnc, False)
                                  ELSE False,
                              !.nationalDncReason =
                                  IF cached # {} THEN OrElse(row.national_dnc_reason, Undefined)
                                  ELSE Undefined,
                              !.nationalDncExpiry =
                                  IF cached # {} THEN OrElse(row.national_dnc_expiry, Undefined)
                                  ELSE Undefined,
                              !.blCall = IF blacklistFresh THEN "none" ELSE "pending",
                              !.natCall = IF nationalFresh THEN "none" ELSE "pending",
                              !.io = @ \cup {"cacheGet"}
                                       \cup (IF blacklistFresh THEN {} ELSE {"blacklistAPI"})
                                       \cup (IF nationalFresh THEN {} ELSE {"nationalAPI"}),
                              !.pc = "apiCalls"]
                  IN  IF AllSettled(r) THEN ReturnVerdict(r) ELSE r]
    /\ recheck' = NoRecheck
    /\ UNCHANGED <<now, ticks, env, cache, contact, flagged, cron,
                 minute, installations, g, unit, px, oc>>

\* The company-blacklist checker resolves; the continuation sets the verdict
\* field and calls dncCache.updateBlacklist.
BlacklistResolve(p, E) ==
    /\ h[p].blCall = "pending"
    /\ \E resp \in E.blacklist :
          h' = [h EXCEPT ![p] =
                  LET result == checkCompanyBlacklistAPI(resp)
                  IN  [@ EXCEPT !.blResult = <<Settled(result)>>,
                                !.isBlacklist = result.isOnList,
                                !.blPayload = <<BlacklistPayload(h[p].phone, result.isOnList)>>,
                                !.io = @ \cup {"updateBlacklist"},
                                !.blCall = "writing"]]
    /\ UNCHANGED <<now, ticks, env, cache, contact, flagged, cron, recheck,
                 minute, installations, g, unit, px, oc>>

\* The national checker resolves; the continuation sets the verdict fields
\* and calls dncCache.updateNational.
NationalResolve(p, E) ==
    /\ h[p].natCall = "pending"
    /\ \E resp \in E.national :
          h' = [h EXCEPT ![p] =
                  LET result == checkNationalDNCAPI(resp)
                  IN  [@ EXCEPT !.natResult = <<Settled(result)>>,
                                !.isNationalDnc = result.isOnList,
                                !.nationalDncReason = result.reason,
                                !.nationalDncExpiry = result.expiry,
                                !.natPayload = <<NationalPayload(h[p].phone, result.isOnList,
                                                                 result.reason, result.expiry)>>,
                                !.io = @ \cup {"updateNational"},
                                !.natCall = "writing"]]
    /\ UNCHANGED <<now, ticks, env, cache, contact, flagged, cron, recheck,
                 minute, installations, g, unit, px, oc>>

\* A false from an update helper treated as a failure of the round.
Settle_RejectOnWriteFailure(r, written) ==
    IF written \in {"rejected", False} THEN InternalError(r)
    ELSE IF r.pc = "apiCalls" /\ AllSettled(r) THEN ReturnVerdict(r)
    ELSE r

\* Promise.all rejecting as soon as one of the checkers reported a failure.
Settle_RejectOnCheckerFailure(r, written) ==
    IF \/ written = "rejected"
       \/ (r.blResult # <<>> /\ r.blResult[1].failed)
       \/ (r.natResult # <<>> /\ r.natResult[1].failed)
    THEN InternalError(r)
    ELSE IF r.pc = "apiCalls" /\ AllSettled(r) THEN ReturnVerdict(r)
    ELSE r

\* A chain of checkDnc settled: its verdict is returned when it was the last
\* one, and the invocation fails when the chain rejected.
Settle(r, written) ==
    IF written = "rejected" THEN InternalError(r)
    ELSE IF r.pc = "apiCalls" /\ AllSettled(r) THEN ReturnVerdict(r)
    ELSE r

\* dncCache.updateBlacklist settles.
UpdateBlacklist(p, E) ==
    /\ h[p].blCall = "writing"
    /\ \E outcome \in E.store :
          /\ cache' = IF outcome = "ok" THEN Upsert(cache, h[p].blPayload[1]) ELSE cache
          /\ h' = [h EXCEPT ![p] =
                     Settle([@ EXCEPT !.blWrite = updateOutcome(outcome),
                                      !.blCall = "settled"],
                            updateOutcome(outcome))]
          /\ recheck' = [recheck EXCEPT
                            !.blacklist = WriteNoted(outcome, h[p].readFailed)]
    /\ UNCHANGED <<now, ticks, env, contact, flagged, cron,
                 minute, installations, g, unit, px, oc>>

\* dncCache.updateNational settles.
UpdateNational(p, E) ==
    /\ h[p].natCall = "writing"
    /\ \E outcome \in E.store :
          /\ cache' = IF outcome = "ok" THEN Upsert(cache, h[p].natPayload[1]) ELSE cache
          /\ h' = [h EXCEPT ![p] =
                     Settle([@ EXCEPT !.natWrite = updateOutcome(outcome),
                                      !.natCall = "settled"],
                            updateOutcome(outcome))]
          /\ recheck' = [recheck EXCEPT
                            !.national = WriteNoted(outcome, h[p].readFailed)]
    /\ UNCHANGED <<now, ticks, env, contact, flagged, cron,
                 minute, installations, g, unit, px, oc>>

----------------------------------------------------------------------------
(* updateContactDNC *)

\* The read of the contact's current tags settles and the merged tag list is
\* computed; the PUT is issued.
GetExistingTags(p, E) ==
    /\ h[p].pc = "getExistingTags"
    /\ \E outcome \in E.tagRead :
          h' = [h EXCEPT ![p] =
                  LET existingTags == getExistingTags(contact.tags, outcome)
                  IN  [LeaveCheckDnc(@) EXCEPT
                                !.tagsRead = <<[ok |-> outcome = "ok", tags |-> existingTags]>>,
                                !.mergedTags = MergeTags(existingTags, h[p].newTags),
                                !.io = @ \cup {"getExistingTags"},
                                !.puts = @ + 1,
                                !.pc = "putContact"]]
    /\ UNCHANGED <<now, ticks, env, cache, contact, flagged, cron, recheck,
                 minute, installations, g, unit, px, oc>>

\* The PUT issued again after a failed one.
PutContact_Retry(p, E) ==
    /\ h[p].pc = "putContact"
    /\ \E outcome \in E.contactPut :
          /\ contact' = IF outcome = "ok"
                        THEN [contact EXCEPT !.tags = PutBody(h[p].mergedTags).tags,
                                             !.dnd = PutBody(h[p].mergedTags).dnd,
                                             !.dndSettings = PutBody(h[p].mergedTags).dndSettings]
                        ELSE contact
          /\ h' = [h EXCEPT ![p] =
                     IF outcome = "ok"
                     THEN [@ EXCEPT !.updated = True,
                                    !.crmBefore = <<contact.tags>>,
                                    !.io = @ \cup {"putContact"},
                                    !.resp = Response(200, FALSE, "flagged"),
                                    !.pc = "responded"]
                     ELSE [@ EXCEPT !.io = @ \cup {"putContact"},
                                    !.puts = @ + 1]]
          /\ flagged' = (flagged \/ (outcome = "ok" /\ AlreadyTagged(h[p].mergedTags)))
    /\ UNCHANGED <<now, ticks, env, cache, cron, recheck,
                 minute, installations, g, unit, px, oc>>

\* The PUT settles: on success the contact carries the merged tags and DND.
PutContact(p, E) ==
    /\ h[p].pc = "putContact"
    /\ \E outcome \in E.contactPut :
          /\ contact' = IF outcome = "ok"
                        THEN [contact EXCEPT !.tags = PutBody(h[p].mergedTags).tags,
                                             !.dnd = PutBody(h[p].mergedTags).dnd,
                                             !.dndSettings = PutBody(h[p].mergedTags).dndSettings]
                        ELSE contact
          /\ h' = [h EXCEPT ![p] =
                     [@ EXCEPT !.updated = IF outcome = "ok" THEN True ELSE False,
                               !.crmBefore = <<contact.tags>>,
                               !.io = @ \cup {"putContact"},
                               !.resp = Response(200, FALSE, "flagged"),
                               !.pc = "responded"]]
          /\ flagged' = (flagged \/ (outcome = "ok" /\ AlreadyTagged(h[p].mergedTags)))
    /\ UNCHANGED <<now, ticks, env, cache, cron, recheck,
                 minute, installations, g, unit, px, oc>>

----------------------------------------------------------------------------
(* Environment *)

\* The invocation is over; the slot takes the next delivery.
Finish(p) ==
    /\ h[p].pc = "responded"
    /\ AllSettled(h[p])
    /\ h' = [h EXCEPT ![p] = HInit]
    /\ UNCHANGED <<now, ticks, env, cache, contact, flagged, cron, recheck,
                 minute, installations, g, unit, px, oc>>

\* Time passes.
Tick ==
    /\ ticks < MaxTicks
    /\ \E d \in TickSteps : now' = now + d
    /\ ticks' = ticks + 1
    /\ UNCHANGED <<env, cache, contact, h, flagged, cron, recheck,
                 minute, installations, g, unit, px, oc>>

----------------------------------------------------------------------------
(* Cleanup cron handler *)

\* The request reaches the handler: secret and method checks, then
\* dncCache.deleteOldEntries(30) is called.
CleanupReceive(E) ==
    /\ cron.pc = "idle"
    /\ \E header \in E.cronAuth, method \in E.cronMethods :
          LET r == [cron EXCEPT !.authorization = header]
          IN  cron' = IF CronSecretOf(header) # env.CRON_SECRET
                      THEN [r EXCEPT !.pc = "responded",
                                     !.resp = CronResponse(401, <<>>)]
                      ELSE IF method \notin {"POST", "GET"}
                      THEN [r EXCEPT !.pc = "responded",
                                     !.resp = CronResponse(405, <<>>)]
                      ELSE [r EXCEPT !.pc = "deleting"]
    /\ UNCHANGED <<now, ticks, env, cache, contact, h, flagged, recheck,
                 minute, installations, g, unit, px, oc>>

\* deleteOldEntries settles; dncCache.getStats is called.
CleanupDelete(E) ==
    /\ cron.pc = "deleting"
    /\ \E outcome \in E.store :
          LET d == deleteOldEntries(cache, RETENTION_DAYS, outcome)
          IN  /\ cache' = d.rows
              /\ cron' = [cron EXCEPT !.pc = "stats",
                                      !.before = cache,
                                      !.swept = (outcome = "ok"),
                                      !.deletedCount = d.count]
    /\ UNCHANGED <<now, ticks, env, contact, h, flagged, recheck,
                 minute, installations, g, unit, px, oc>>

\* getStats settles and the handler answers.
CleanupStats(E) ==
    /\ cron.pc = "stats"
    /\ \E outcome \in E.store :
          cron' = [cron EXCEPT !.pc = "responded",
                               !.resp = CronResponse(200,
                                           <<[deleted |-> cron.deletedCount,
                                              remaining |-> getStats(cache, outcome)]>>)]
    /\ UNCHANGED <<now, ticks, env, cache, contact, h, flagged, recheck,
                 minute, installations, g, unit, px, oc>>

\* The cron run is over.
CleanupFinish ==
    /\ cron.pc = "responded"
    /\ cron' = CronInit
    /\ UNCHANGED <<now, ticks, env, cache, contact, h, flagged, recheck,
                 minute, installations, g, unit, px, oc>>

----------------------------------------------------------------------------
(* getValidAccessToken and refreshAccessToken *)

\* getValidAccessToken is called: its read of the installation settles and
\* the expiry checks run; an expired or expiring token starts a refresh.
TokenGetInstallation(E) ==
    /\ g.pc = "idle"
    /\ \E outcome \in E.db :
          LET read == getByUserAndLocation(installations, outcome)
              r == [g EXCEPT !.installation = read, !.readAt = minute]
          IN  g' = IF read = <<>> THEN ReturnNull(r)
                   ELSE IF isTokenExpired(read[1].expires_at)
                   THEN [r EXCEPT !.pc = "refreshGet", !.expired = TRUE]
                   ELSE IF isTokenExpiringSoon(read[1].expires_at, REFRESH_BUFFER_MINUTES)
                   THEN [r EXCEPT !.pc = "refreshGet", !.expired = FALSE]
                   ELSE ReturnToken(r, read[1], minute)
    /\ UNCHANGED <<now, ticks, env, cache, contact, h, flagged, cron, recheck,
                 minute, installations, unit, px, oc>>

\* refreshAccessToken: its own read of the installation settles.
RefreshGet(E) ==
    /\ g.pc = "refreshGet"
    /\ \E outcome \in E.db :
          LET read == getByUserAndLocation(installations, outcome)
          IN  g' = IF read = <<>> THEN RefreshDone(g, FALSE, <<>>, minute)
                   ELSE [g EXCEPT !.pc = "refreshCall", !.current = read]
    /\ UNCHANGED <<now, ticks, env, cache, contact, h, flagged, cron, recheck,
                 minute, installations, unit, px, oc>>

\* GHLAPI.refreshToken settles; the new expiry is calculated.
RefreshCall(E) ==
    /\ g.pc = "refreshCall"
    /\ \E outcome \in E.oauth :
          LET tokenResponse == refreshToken(g.current[1].refresh_token, outcome)
          IN  g' = IF tokenResponse = <<>> THEN RefreshDone(g, FALSE, <<>>, minute)
                   ELSE [g EXCEPT
                           !.pc = "refreshUpdate",
                           !.tokens = <<[access_token |-> tokenResponse[1].access_token,
                                         refresh_token |-> tokenResponse[1].refresh_token,
                                         expires_at |-> calculateTokenExpiration(
                                                            tokenResponse[1].expires_in)]>>]
    /\ UNCHANGED <<now, ticks, env, cache, contact, h, flagged, cron, recheck,
                 minute, installations, unit, px, oc>>

\* cadenceInstallations.updateTokens settles.
RefreshUpdate(E) ==
    /\ g.pc = "refreshUpdate"
    /\ \E outcome \in E.db :
          LET u == updateTokens(installations, g.tokens[1], outcome)
          IN  /\ installations' = u.rows
              /\ g' = IF ~u.ok THEN RefreshDone(g, FALSE, <<>>, minute)
                       ELSE [g EXCEPT !.pc = "refreshReread"]
    /\ UNCHANGED <<now, ticks, env, cache, contact, h, flagged, cron, recheck,
                 minute, unit, px, oc>>

\* The read of the updated installation settles; refreshAccessToken
\* resolves with success: true and getValidAccessToken returns.
RefreshReread(E) ==
    /\ g.pc = "refreshReread"
    /\ \E outcome \in E.db :
          g' = RefreshDone(g, TRUE, getByUserAndLocation(installations, outcome), minute)
    /\ UNCHANGED <<now, ticks, env, cache, contact, h, flagged, cron, recheck,
                 minute, installations, unit, px, oc>>

\* The caller has taken the result.
TokenFinish ==
    /\ g.pc = "returned"
    /\ g' = GInit
    /\ UNCHANGED <<now, ticks, env, cache, contact, h, flagged, cron, recheck,
                 minute, installations, unit, px, oc>>

\* Minutes pass.
TokenTick ==
    /\ ticks < MaxTicks
    /\ \E d \in MinuteSteps : minute' = minute + d
    /\ ticks' = ticks + 1
    /\ UNCHANGED <<now, env, cache, contact, h, flagged, cron, recheck,
                 installations, g, unit, px, oc>>

----------------------------------------------------------------------------
(* API proxy handler *)

AllowedMethods == {"GET", "POST", "PUT", "DELETE", "PATCH"}

\* A request arrives: preflight and validation answer at once, a valid
\* request goes on to getValidAccessToken.
ProxyReceive(E) ==
    /\ px.pc = "idle"
    /\ g.pc = "idle"
    /\ \E q \in E.proxy :
          px' = IF q.method = "OPTIONS"
                THEN [PxInit EXCEPT !.pc = "responded", !.resp = <<200>>]
                ELSE IF ~q.endpoint \/ ~q.ids
                THEN [PxInit EXCEPT !.pc = "responded", !.resp = <<400>>]
                ELSE IF q.method \notin AllowedMethods
                THEN [PxInit EXCEPT !.pc = "responded", !.resp = <<405>>]
                ELSE [PxInit EXCEPT !.pc = "token"]
    /\ UNCHANGED <<now, ticks, env, cache, contact, h, flagged, cron, recheck,
                 minute, installations, g, unit, oc>>

\* The handler's call of getValidAccessToken: its read of the installation.
ProxyGetToken(E) ==
    /\ px.pc = "token"
    /\ TokenGetInstallation(E)

\* getValidAccessToken has returned: 401 without a token, otherwise the
\* request is prepared with the token.
ProxyToken ==
    /\ px.pc = "token"
    /\ g.pc = "returned"
    /\ px' = IF g.result = <<>>
             THEN [px EXCEPT !.pc = "responded", !.resp = <<401>>]
             ELSE [px EXCEPT !.pc = "upstream",
                             !.token = g.result,
                             !.expires_at = g.source[1].expires_at]
    /\ g' = GInit
    /\ UNCHANGED <<now, ticks, env, cache, contact, h, flagged, cron, recheck,
                 minute, installations, unit, oc>>

\* makeRequest settles, once.  The provider answers 401 to an expired
\* token; the handler passes a failure status on and answers 500 when the
\* call throws.
ProxyUpstream(E) ==
    /\ px.pc = "upstream"
    /\ \E outcome \in E.upstream :
          LET r == [px EXCEPT !.pc = "responded", !.requests = @ + 1]
          IN  px' = IF isTokenExpired(px.expires_at)
                    THEN [r EXCEPT !.rejected = TRUE, !.resp = <<401>>]
                    ELSE IF outcome = "ok" THEN [r EXCEPT !.resp = <<200>>]
                    ELSE [r EXCEPT !.resp = <<500>>]
    /\ UNCHANGED <<now, ticks, env, cache, contact, h, flagged, cron, recheck,
                 minute, installations, g, unit, oc>>

\* The response is on its way.
ProxyFinish ==
    /\ px.pc = "responded"
    /\ px' = PxInit
    /\ UNCHANGED <<now, ticks, env, cache, contact, h, flagged, cron, recheck,
                 minute, installations, g, unit, oc>>

----------------------------------------------------------------------------
(* OAuth callback handler and revocation, for one (user_id, location_id) *)

\* The callback is requested: method, error and code checks, then the code
\* is exchanged for tokens and their expiry is calculated; the handler goes
\* on to look the installation up.
CallbackReceive(E) ==
    /\ oc.pc = "idle"
    /\ oc.count < MaxInstalls
    /\ \E q \in E.callback, outcome \in E.oauth :
          LET r == [oc EXCEPT !.count = @ + 1]
              tokenResponse == exchangeCodeForTokens(10 * r.count, outcome)
          IN  oc' = IF q.method # "GET"
                    THEN [r EXCEPT !.pc = "responded", !.redirect = <<"method">>]
                    ELSE IF q.error
                    THEN [r EXCEPT !.pc = "responded", !.redirect = <<"oauth_error">>]
                    ELSE IF ~q.code
                    THEN [r EXCEPT !.pc = "responded", !.redirect = <<"missing_code">>]
                    ELSE IF tokenResponse = <<>>
                    THEN [r EXCEPT !.pc = "responded",
                                   !.redirect = <<"token_exchange_failed">>]
                    ELSE [r EXCEPT
                            !.pc = "lookup",
                            !.tokens = <<[access_token |-> tokenResponse[1].access_token,
                                          refresh_token |-> tokenResponse[1].refresh_token,
                                          expires_at |-> calculateTokenExpiration(
                                                             tokenResponse[1].expires_in)]>>]
    /\ UNCHANGED <<now, ticks, env, cache, contact, h, flagged, cron, recheck,
                 minute, installations, g, unit, px>>

\* cadenceInstallations.getByUserAndLocation settles: an installation found
\* is updated, otherwise one is created.
CallbackLookup(E) ==
    /\ oc.pc = "lookup"
    /\ \E outcome \in E.db :
          LET existingInstallation == getByUserAndLocation(installations, outcome)
          IN  oc' = [oc EXCEPT
                       !.pc = IF existingInstallation # <<>> THEN "update" ELSE "create",
                       !.existing = existingInstallation,
                       !.before = installations,
                       !.dbFailed = (outcome # "ok")]
    /\ UNCHANGED <<now, ticks, env, cache, contact, h, flagged, cron, recheck,
                 minute, installations, g, unit, px>>

\* cadenceInstallations.updateTokens settles and the handler redirects.
CallbackUpdate(E) ==
    /\ oc.pc = "update"
    /\ \E outcome \in E.db :
          LET u == updateTokens(installations, oc.tokens[1], outcome)
          IN  /\ installations' = u.rows
              /\ oc' = [oc EXCEPT
                          !.pc = "responded",
                          !.dbFailed = @ \/ (outcome # "ok"),
                          !.redirect = IF u.ok THEN <<"success">> ELSE <<"update_failed">>]
    /\ UNCHANGED <<now, ticks, env, cache, contact, h, flagged, cron, recheck,
                 minute, g, unit, px>>

\* cadenceInstallations.create settles and the handler redirects.
CallbackCreate(E) ==
    /\ oc.pc = "create"
    /\ \E outcome \in E.db :
          LET c == create(installations,
                          [access_token |-> oc.tokens[1].access_token,
                           refresh_token |-> oc.tokens[1].refresh_token,
                           expires_at |-> oc.tokens[1].expires_at,
                           is_active |-> TRUE],
                          outcome)
          IN  /\ installations' = c.rows
              /\ oc' = [oc EXCEPT
                          !.pc = "responded",
                          !.dbFailed = @ \/ (outcome # "ok"),
                          !.redirect = IF c.data # <<>> THEN <<"success">>
                                       ELSE <<"creation_failed">>]
    /\ UNCHANGED <<now, ticks, env, cache, contact, h, flagged, cron, recheck,
                 minute, g, unit, px>>

\* The redirect is on its way.
CallbackFinish ==
    /\ oc.pc = "responded"
    /\ oc' = [OcInit EXCEPT !.count = oc.count]
    /\ UNCHANGED <<now, ticks, env, cache, contact, h, flagged, cron, recheck,
                 minute, installations, g, unit, px>>

\* revokeInstallation: cadenceInstallations.deactivate settles.
RevokeInstallation(E) ==
    /\ \E outcome \in E.db : installations' = deactivate(installations, outcome).rows
    /\ UNCHANGED <<now, ticks, env, cache, contact, h, flagged, cron, recheck,
                 minute, g, unit, px, oc>>

----------------------------------------------------------------------------
(* Specifications *)

\* One invocation at a time, with time passing.
Next ==
    \/ Receive("h1", AnyInput)
    \/ FetchContact("h1", AnyInput)
    \/ CacheGet("h1", AnyInput)
    \/ BlacklistResolve("h1", AnyInput)
    \/ NationalResolve("h1", AnyInput)
    \/ UpdateBlacklist("h1", AnyInput)
    \/ UpdateNational("h1", AnyInput)
    \/ GetExistingTags("h1", AnyInput)
    \/ PutContact("h1", AnyInput)
    \/ Finish("h1")
    \/ Tick

Spec == Init /\ [][Next]_vars

\* Concurrent deliveries for the same contact at one instant, default TTLs.
InitConc ==
    /\ Init
    /\ env.DNC_CACHE_TTL_BLACKLIST_HOURS = <<>>
    /\ env.DNC_CACHE_TTL_NATIONAL_HOURS = <<>>
    /\ contact.phone = PhoneA

NextConc ==
    \/ \E p \in Procs : Receive(p, NominalInput)
    \/ \E p \in Procs : FetchContact(p, NominalInput)
    \/ \E p \in Procs : CacheGet(p, NominalInput)
    \/ \E p \in Procs : BlacklistResolve(p, NominalInput)
    \/ \E p \in Procs : NationalResolve(p, NominalInput)
    \/ \E p \in Procs : UpdateBlacklist(p, NominalInput)
    \/ \E p \in Procs : UpdateNational(p, NominalInput)
    \/ \E p \in Procs : GetExistingTags(p, NominalInput)
    \/ \E p \in Procs : PutContact(p, NominalInput)
    \/ \E p \in Procs : Finish(p)

SpecConc == InitConc /\ [][NextConc]_vars

\* Well-formed deliveries and a working contact API; the store and the
\* list checkers answer or fail in every way.
CheckInput ==
    [NominalInput EXCEPT !.store = StoreOutcomes,
                         !.blacklist = BlacklistResponses,
                         !.national = NationalResponses,
                         !.tagRead = {"ok"}]

NextLive ==
    \/ Receive("h1", CheckInput)
    \/ FetchContact("h1", CheckInput)
    \/ CacheGet("h1", CheckInput)
    \/ BlacklistResolve("h1", CheckInput)
    \/ NationalResolve("h1", CheckInput)
    \/ UpdateBlacklist("h1", CheckInput)
    \/ UpdateNational("h1", CheckInput)
    \/ GetExistingTags("h1", CheckInput)
    \/ PutContact("h1", CheckInput)
    \/ Finish("h1")
    \/ Tick

\* One invocation at a time with default TTLs and time passing; the cache
\* read, every checker call and every cache write the invocation is waiting
\* for settle eventually, with success or failure.
SpecLive ==
    /\ InitConc
    /\ [][NextLive]_vars
    /\ WF_vars(CacheGet("h1", CheckInput))
    /\ WF_vars(BlacklistResolve("h1", CheckInput))
    /\ WF_vars(NationalResolve("h1", CheckInput))
    /\ WF_vars(UpdateBlacklist("h1", CheckInput))
    /\ WF_vars(UpdateNational("h1", CheckInput))

\* Both list checkers failing in every way, over a store that holds a row
\* for the phone with both lists on-list, checked StaleAge hours ago and
\* stale under every TTL setting: every entry written is the result of a
\* failed check.
StaleAge == 12

FailingInput ==
    [CheckInput EXCEPT
        !.blacklist = { r \in BlacklistResponses :
                          checkCompanyBlacklistAPI(r).error # Undefined },
        !.national = { r \in NationalResponses :
                         checkNationalDNCAPI(r).error # Undefined }]

InitDegraded ==
    /\ now = StaleAge
    /\ ticks = 0
    /\ env \in [DNC_CACHE_TTL_BLACKLIST_HOURS : EnvTtlValues,
                DNC_CACHE_TTL_NATIONAL_HOURS : EnvTtlValues,
                CRON_SECRET : {<<Secret>>}]
    /\ cache = { [phone |-> PhoneA,
                  is_company_blacklist |-> True,
                  blacklist_checked_at |-> 0,
                  is_national_dnc |-> True,
                  national_dnc_reason |-> "registered",
                  national_dnc_expiry |-> "2027-01-01",
                  national_checked_at |-> 0,
                  updated_at |-> 0] }
    /\ contact = [phone |-> PhoneA, tags |-> <<"vip">>, dnd |-> FALSE,
                  dndSettings |-> NoDndSettings]
    /\ h = [p \in Procs |-> HInit]
    /\ flagged = FALSE
    /\ cron = CronInit
    /\ recheck = NoRecheck
    /\ minute = 0
    /\ installations = <<>>
    /\ g = GInit
    /\ unit = <<>>
    /\ px = PxInit
    /\ oc = OcInit

NextDegraded ==
    \/ Receive("h1", FailingInput)
    \/ FetchContact("h1", FailingInput)
    \/ CacheGet("h1", FailingInput)
    \/ BlacklistResolve("h1", FailingInput)
    \/ NationalResolve("h1", FailingInput)
    \/ UpdateBlacklist("h1", FailingInput)
    \/ UpdateNational("h1", FailingInput)
    \/ Finish("h1")
    \/ Tick

SpecDegraded == InitDegraded /\ [][NextDegraded]_vars

\* The retention sweep over a store filled earlier: rows of two phones whose
\* lists were checked 40, 30 or 5 days ago, or never.
SweepNow == Days(40)
SweepTimes == {NullTs, Days(0), Days(10), Days(35)}

Later(a, b) == IF a > b THEN a ELSE b

SweepRows(phone) ==
    { [DefaultRow(phone) EXCEPT
          !.blacklist_checked_at = b,
          !.is_company_blacklist = IF b # NullTs /\ phone = PhoneA THEN True ELSE False,
          !.national_checked_at = n,
          !.updated_at = Later(b, n)] :
      b \in SweepTimes, n \in SweepTimes } \ { DefaultRow(phone) }

InitSweep ==
    /\ now = SweepNow
    /\ ticks = 0
    /\ env \in [DNC_CACHE_TTL_BLACKLIST_HOURS : {<<>>},
                DNC_CACHE_TTL_NATIONAL_HOURS : {<<>>},
                CRON_SECRET : CronSecrets]
    /\ \E ra \in {{}} \cup { {r} : r \in SweepRows(PhoneA) },
          rb \in {{}} \cup { {r} : r \in SweepRows(PhoneB) } :
          cache = ra \cup rb
    /\ contact = [phone |-> PhoneA, tags |-> <<"vip">>, dnd |-> FALSE,
                  dndSettings |-> NoDndSettings]
    /\ h = [p \in Procs |-> HInit]
    /\ flagged = FALSE
    /\ cron = CronInit
    /\ recheck = NoRecheck
    /\ minute = 0
    /\ installations = <<>>
    /\ g = GInit
    /\ unit = <<>>
    /\ px = PxInit
    /\ oc = OcInit

NextSweep ==
    \/ CleanupReceive(AnyInput)
    \/ CleanupDelete(AnyInput)
    \/ CleanupStats(AnyInput)
    \/ CleanupFinish
    \/ Tick

SpecSweep == InitSweep /\ [][NextSweep]_vars

\* getValidAccessToken called again and again for one tenant whose token
\* expires before, at or after the first call, with minutes passing.
TokenExpiries == {0 - 3, 0, 2, 5, 6, 20}

Installations ==
    {<<>>} \cup
    { <<[access_token |-> 0, refresh_token |-> 0, expires_at |-> e, is_active |-> a]>> :
        e \in TokenExpiries, a \in BOOLEAN }

InitToken ==
    /\ now = 0
    /\ ticks = 0
    /\ env = [DNC_CACHE_TTL_BLACKLIST_HOURS |-> <<>>,
              DNC_CACHE_TTL_NATIONAL_HOURS |-> <<>>,
              CRON_SECRET |-> <<Secret>>]
    /\ cache = {}
    /\ contact = [phone |-> PhoneA, tags |-> <<"vip">>, dnd |-> FALSE,
                  dndSettings |-> NoDndSettings]
    /\ h = [p \in Procs |-> HInit]
    /\ flagged = FALSE
    /\ cron = CronInit
    /\ recheck = NoRecheck
    /\ minute = 0
    /\ installations \in Installations
    /\ g = GInit
    /\ unit = <<>>
    /\ px = PxInit
    /\ oc = OcInit

NextToken ==
    \/ TokenGetInstallation(AnyInput)
    \/ RefreshGet(AnyInput)
    \/ RefreshCall(AnyInput)
    \/ RefreshUpdate(AnyInput)
    \/ RefreshReread(AnyInput)
    \/ TokenFinish
    \/ TokenTick

SpecToken == InitToken /\ [][NextToken]_vars

\* Requests through the API proxy, one at a time, for the same tenant,
\* with minutes passing.
NextProxy ==
    \/ ProxyReceive(AnyInput)
    \/ ProxyGetToken(AnyInput)
    \/ RefreshGet(AnyInput)
    \/ RefreshCall(AnyInput)
    \/ RefreshUpdate(AnyInput)
    \/ RefreshReread(AnyInput)
    \/ ProxyToken
    \/ ProxyUpstream(AnyInput)
    \/ ProxyFinish
    \/ TokenTick

SpecProxy == InitToken /\ [][NextProxy]_vars

\* Install callbacks, revocations and re-installs for one tenant that starts
\* without an installation, with minutes passing.
InitInstall ==
    /\ InitToken
    /\ installations = <<>>

NextInstall ==
    \/ CallbackReceive(AnyInput)
    \/ CallbackLookup(AnyInput)
    \/ CallbackUpdate(AnyInput)
    \/ CallbackCreate(AnyInput)
    \/ CallbackFinish
    \/ RevokeInstallation(AnyInput)
    \/ TokenTick

SpecInstall == InitInstall /\ [][NextInstall]_vars

\* The list checkers and the two emitters of dnc_check log records, each
\* called on its own with every response and every phone.
\* checkCompanyBlacklistAPI is called and resolves.
CheckCompanyBlacklist(E) ==
    /\ \E resp \in E.blacklist :
          unit' = <<[fn |-> "checkCompanyBlacklistAPI",
                     resp |-> resp,
                     result |-> checkCompanyBlacklistAPI(resp)]>>
    /\ UNCHANGED <<now, ticks, env, cache, contact, h, flagged, cron, recheck,
                 minute, installations, g, px, oc>>

\* checkNationalDNCAPI is called and resolves.
CheckNationalDNC(E) ==
    /\ \E resp \in E.national :
          unit' = <<[fn |-> "checkNationalDNCAPI",
                     resp |-> resp,
                     result |-> checkNationalDNCAPI(resp)]>>
    /\ UNCHANGED <<now, ticks, env, cache, contact, h, flagged, cron, recheck,
                 minute, installations, g, px, oc>>

\* logDncCheck emits the record of a check.
LogDncCheck(E) ==
    /\ \E phone \in E.phones, blacklistFresh \in BOOLEAN, nationalFresh \in BOOLEAN :
          unit' = <<[fn |-> "logDncCheck",
                     phone |-> phone,
                     log |-> DncLog(phone, CacheStatus(blacklistFresh, nationalFresh),
                                    blacklistFresh, nationalFresh, False, False)]>>
    /\ UNCHANGED <<now, ticks, env, cache, contact, h, flagged, cron, recheck,
                 minute, installations, g, px, oc>>

\* The handler emits the record of an already-tagged skip.
LogSkippedTagged(E) ==
    /\ \E phone \in E.phones :
          unit' = <<[fn |-> "skipped_tagged",
                     phone |-> phone,
                     log |-> DncLog(phone, "skipped_tagged", FALSE, FALSE, True, True)]>>
    /\ UNCHANGED <<now, ticks, env, cache, contact, h, flagged, cron, recheck,
                 minute, installations, g, px, oc>>

NextUnit ==
    \/ CheckCompanyBlacklist(AnyInput)
    \/ CheckNationalDNC(AnyInput)
    \/ LogDncCheck(AnyInput)
    \/ LogSkippedTagged(AnyInput)

InitUnit == InitConc

SpecUnit == InitUnit /\ [][NextUnit]_vars

----------------------------------------------------------------------------
(* Properties *)

\* What the properties mean by a fresh cache entry: checked, and younger
\* than the list's TTL (12 hours unless configured).
ConfiguredTtl(setting) == IF setting = <<>> THEN 12 ELSE IF setting = <<"6">> THEN 6 ELSE 7
FreshEntry(checkedAt, ttl) == checkedAt # NullTs /\ now - checkedAt < ttl
BlacklistEntryFresh(row) ==
    FreshEntry(row.blacklist_checked_at, ConfiguredTtl(env.DNC_CACHE_TTL_BLACKLIST_HOURS))
NationalEntryFresh(row) ==
    FreshEntry(row.national_checked_at, ConfiguredTtl(env.DNC_CACHE_TTL_NATIONAL_HOURS))

\* The row an invocation read (meaningful when it read one).
RowRead(r) == CHOOSE c \in r.cached \cup {DefaultRow(r.phone)} : r.cached # {} => c \in r.cached

\* The step in which checkDnc's cache read settles.
ReadStep(p) == h[p].pc = "cacheGet" /\ h'[p].pc # "cacheGet"

\* The step in which checkDnc returns its verdict.
ReturnStep(p) == h[p].result = <<>> /\ h'[p].result # <<>>

\* checkDnc has just returned in this state.
Returned(p) == h[p].result # <<>>

CheckersCalled(r) == r.io \cap {"blacklistAPI", "nationalAPI"}
CacheWrites(r) == r.io \cap {"updateBlacklist", "updateNational"}

\* JavaScript absent values are one value to the reader of a verdict.
Absent(v) == v \in {Undefined, Null}
SameValue(a, b) == (Absent(a) /\ Absent(b)) \/ a = b

\* C1: when the row read by checkDnc has exactly one list fresh, exactly the
\* stale list's checker is invoked, the fresh list's checker is never
\* invoked during the invocation, and the verdict reports FromCache true for
\* the fresh list and false for the stale one.
C1_OneFresh(p, freshApi, staleApi) ==
    /\ CheckersCalled(h'[p]) = {staleApi}
    /\ h'[p].pc = "apiCalls"
    /\ h'[p].blacklistFresh = (freshApi = "blacklistAPI")
    /\ h'[p].nationalFresh = (freshApi = "nationalAPI")

C1_IndependentListCaching ==
    [][\A p \in Procs :
        /\ (ReadStep(p) /\ h'[p].cached # {}) =>
              LET row == RowRead(h'[p])
              IN  /\ (BlacklistEntryFresh(row) /\ ~NationalEntryFresh(row))
                        => C1_OneFresh(p, "blacklistAPI", "nationalAPI")
                  /\ (NationalEntryFresh(row) /\ ~BlacklistEntryFresh(row))
                        => C1_OneFresh(p, "nationalAPI", "blacklistAPI")
        /\ (h[p].pc = "apiCalls" /\ h[p].blacklistFresh # h[p].nationalFresh) =>
              /\ CheckersCalled(h'[p]) = CheckersCalled(h[p])
              /\ ReturnStep(p) =>
                    /\ h'[p].result[1].blacklistFromCache = h[p].blacklistFresh
                    /\ h'[p].result[1].nationalFromCache = h[p].nationalFresh
                    /\ h'[p].result[1].blacklistFromCache = ("blacklistAPI" \notin h'[p].io)
                    /\ h'[p].result[1].nationalFromCache = ("nationalAPI" \notin h'[p].io)
    ]_vars

\* C1 witness: a verdict returned after a round that served the blacklist
\* from a row read from the cache and checked the national list live.
C1_Witness ==
    \E p \in Procs :
        /\ Returned(p)
        /\ h[p].cached # {}
        /\ h[p].result[1].blacklistFromCache
        /\ ~h[p].result[1].nationalFromCache
        /\ h[p].natCall = "settled"
        /\ h[p].blCall = "none"

\* C2: when both entries of the row read are fresh, checkDnc invokes no
\* checker, writes nothing to the cache, and returns at once a verdict whose
\* flags, reason and expiry are the row's, with both FromCache flags true.
C2_FullCacheHit ==
    [][\A p \in Procs :
        (ReadStep(p) /\ h'[p].cached # {}
           /\ BlacklistEntryFresh(RowRead(h'[p])) /\ NationalEntryFresh(RowRead(h'[p]))) =>
            LET row == RowRead(h'[p])
                res == h'[p].result[1]
            IN  /\ h'[p].result # <<>>
                /\ CheckersCalled(h'[p]) = {}
                /\ CacheWrites(h'[p]) = {}
                /\ h'[p].blCall = "none" /\ h'[p].natCall = "none"
                /\ cache' = cache
                /\ res.isBlacklist = row.is_company_blacklist
                /\ res.isNationalDnc = row.is_national_dnc
                /\ SameValue(res.nationalDncReason, row.national_dnc_reason)
                /\ SameValue(res.nationalDncExpiry, row.national_dnc_expiry)
                /\ res.blacklistFromCache /\ res.nationalFromCache
    ]_vars

\* C2 witness: a verdict served entirely from a cached row that flags the
\* national list with a reason.
C2_Witness ==
    \E p \in Procs :
        /\ Returned(p)
        /\ h[p].cached # {}
        /\ h[p].result[1].blacklistFromCache
        /\ h[p].result[1].nationalFromCache
        /\ h[p].result[1].isNationalDnc = True
        /\ h[p].result[1].nationalDncReason = "registered"
        /\ h[p].io = {"getContact", "cacheGet"}

\* The rows the store holds for a phone.
RowsFor(phone) == { r \in cache : r.phone = phone }
RowsAfterFor(phone) == { r \in cache' : r.phone = phone }

NoDuplicates(tags) == Cardinality(TagSet(tags)) = Len(tags)

\* C4: when the read of the contact's current tags succeeds, the tag list
\* sent by the update is the union of the tags read and the new DNC tags,
\* without duplicates, and that list is what a successful write stores.
C4_TagMergeKeepsTags ==
    [][\A p \in Procs :
        /\ (h[p].pc = "getExistingTags" /\ h'[p].pc = "putContact" /\ h'[p].tagsRead[1].ok) =>
              /\ h'[p].tagsRead[1].tags = contact.tags
              /\ TagSet(h'[p].mergedTags) = TagSet(contact.tags) \cup TagSet(h[p].newTags)
              /\ NoDuplicates(h'[p].mergedTags)
              /\ h'[p].newTags = h[p].newTags
        /\ (h[p].pc = "putContact" /\ h'[p].pc # "putContact") =>
              /\ contact'.tags \in {contact.tags, h[p].mergedTags}
              /\ h'[p].updated = True => contact'.tags = h[p].mergedTags
    ]_vars

\* C4 witness: a successful update whose read returned a DNC tag that is
\* also among the new tags, next to a tag of the user's own.
C4_Witness ==
    \E p \in Procs :
        /\ h[p].pc = "responded"
        /\ h[p].updated = True
        /\ h[p].tagsRead # <<>> /\ h[p].tagsRead[1].ok
        /\ "vip" \in TagSet(h[p].tagsRead[1].tags)
        /\ TagSet(h[p].tagsRead[1].tags) \cap TagSet(h[p].newTags) # {}
        /\ contact.tags = h[p].mergedTags

\* No flagging update is between its read and its write.
NoUpdateInFlight == \A q \in Procs : h[q].pc \notin {"getExistingTags", "putContact"}

\* C5: under concurrent deliveries, once the flagging updates have completed
\* (every one of them having read the contact's tags successfully), every
\* tag read by a completed update and every DNC tag it added is on the
\* contact.
C5_ConcurrentUpdatesKeepTags ==
    \A p \in Procs :
        (/\ h[p].pc = "responded"
         /\ h[p].updated = True
         /\ NoUpdateInFlight
         /\ \A q \in Procs : h[q].tagsRead # <<>> => h[q].tagsRead[1].ok)
        => TagSet(h[p].mergedTags) \subseteq TagSet(contact.tags)

\* C6: no step removes a tag from the contact.
C6_TagsOnlyAdded ==
    [][TagSet(contact.tags) \subseteq TagSet(contact'.tags)]_vars

BothDncTags(tags) == {DNC_TAG_USHEALTH, DNC_TAG_NATIONAL} \subseteq TagSet(tags)

C7_WitnessOneTag ==
    \E p \in Procs :
        /\ h[p].pc = "cacheGet"
        /\ Cardinality(TagSet(contact.tags) \cap {DNC_TAG_USHEALTH, DNC_TAG_NATIONAL}) = 1

\* C8: a delivery that arrives after the contact has carried both DNC tags
\* triggers no cache lookup and no list-checker call.
C8_NeverCheckedAgain ==
    \A p \in Procs :
        h[p].late => h[p].io \cap {"cacheGet", "blacklistAPI", "nationalAPI"} = {}

IsBoolean(v) == v \in {True, False}

\* C9: when a list's checker fails, the flag for that list is false in the
\* verdict, and every on-list value sent to or held by the cache is a
\* boolean, never null or undefined.
C9_FailOpen ==
    \A p \in Procs :
        /\ (h[p].blResult # <<>> /\ h[p].blResult[1].failed) =>
              /\ h[p].isBlacklist = False
              /\ Returned(p) => h[p].result[1].isBlacklist = False
        /\ (h[p].natResult # <<>> /\ h[p].natResult[1].failed) =>
              /\ h[p].isNationalDnc = False
              /\ Returned(p) => h[p].result[1].isNationalDnc = False
        /\ h[p].blPayload # <<>> => IsBoolean(h[p].blPayload[1].is_company_blacklist)
        /\ h[p].natPayload # <<>> => IsBoolean(h[p].natPayload[1].is_national_dnc)
        /\ \A row \in cache :
              IsBoolean(row.is_company_blacklist) /\ IsBoolean(row.is_national_dnc)

\* C9 witness: the national checker failed while the stale cached value was
\* on-list; the write of false was stored and the verdict returned.
C9_Witness ==
    \E p \in Procs :
        /\ Returned(p)
        /\ h[p].natResult # <<>> /\ h[p].natResult[1].failed
        /\ h[p].cached # {} /\ RowRead(h[p]).is_national_dnc = True
        /\ h[p].natWrite = True
        /\ h[p].result[1].isNationalDnc = False
        /\ \E row \in cache : row.phone = h[p].phone /\ row.is_national_dnc = False

\* C10: checkDnc never rejects, whatever fails: an invocation that entered
\* checkDnc never ends in the handler's catch block, and once every call it
\* triggered has settled it has returned a verdict.
C10_CheckDncAlwaysResolves ==
    \A p \in Procs :
        /\ "cacheGet" \in h[p].io =>
              /\ h[p].blWrite # "rejected" /\ h[p].natWrite # "rejected"
              /\ h[p].pc = "responded" => h[p].resp[1].status # 500
        /\ h[p].pc = "apiCalls" => (~AllSettled(h[p]) /\ h[p].result = <<>>)

\* C10 witness: the cache read failed although the row exists, both
\* checkers failed and both cache writes failed, and a verdict was returned.
C10_Witness ==
    \E p \in Procs :
        /\ Returned(p)
        /\ h[p].cached = {} /\ RowsFor(h[p].phone) # {}
        /\ h[p].blResult # <<>> /\ h[p].blResult[1].failed
        /\ h[p].natResult # <<>> /\ h[p].natResult[1].failed
        /\ h[p].blWrite = False /\ h[p].natWrite = False

\* Both checkers were triggered in the round of invocation record r.
BothTriggered(r) == {"blacklistAPI", "nationalAPI"} \subseteq r.io
CheckerFailed(res) == res # <<>> /\ res[1].failed

\* C11: in a round where both checkers are triggered and one of them fails,
\* the failing checker's continuation leaves the other list's verdict field,
\* result, payload and write untouched; the other list's write, when stored,
\* puts that checker's result in the row; and once both chains have settled
\* the verdict is returned with each list's flag equal to its own checker's
\* result.
C11_CheckerIsolation ==
    [][\A p \in Procs :
        /\ (h[p].natCall = "pending" /\ h'[p].natCall = "writing"
              /\ CheckerFailed(h'[p].natResult) /\ BothTriggered(h[p])) =>
              /\ h'[p].isBlacklist = h[p].isBlacklist
              /\ h'[p].blResult = h[p].blResult
              /\ h'[p].blPayload = h[p].blPayload
              /\ h'[p].blCall = h[p].blCall
              /\ h'[p].blWrite = h[p].blWrite
              /\ cache' = cache
        /\ (h[p].blCall = "pending" /\ h'[p].blCall = "writing"
              /\ CheckerFailed(h'[p].blResult) /\ BothTriggered(h[p])) =>
              /\ h'[p].isNationalDnc = h[p].isNationalDnc
              /\ h'[p].natResult = h[p].natResult
              /\ h'[p].natPayload = h[p].natPayload
              /\ h'[p].natCall = h[p].natCall
              /\ h'[p].natWrite = h[p].natWrite
              /\ cache' = cache
        /\ (h[p].blCall = "writing" /\ h'[p].blCall = "settled"
              /\ h'[p].blWrite = True /\ CheckerFailed(h[p].natResult)) =>
              /\ RowsAfterFor(h[p].phone) # {}
              /\ \A row \in RowsAfterFor(h[p].phone) :
                    row.is_company_blacklist = h[p].blResult[1].isOnList
        /\ (h[p].natCall = "writing" /\ h'[p].natCall = "settled"
              /\ h'[p].natWrite = True /\ CheckerFailed(h[p].blResult)) =>
              /\ RowsAfterFor(h[p].phone) # {}
              /\ \A row \in RowsAfterFor(h[p].phone) :
                    row.is_national_dnc = h[p].natResult[1].isOnList
        /\ (h'[p].blCall = "settled" /\ h'[p].natCall = "settled"
              /\ (CheckerFailed(h'[p].blResult) \/ CheckerFailed(h'[p].natResult))) =>
              /\ h'[p].result # <<>>
              /\ h'[p].result[1].isBlacklist = h'[p].blResult[1].isOnList
              /\ h'[p].result[1].isNationalDnc = h'[p].natResult[1].isOnList
              /\ h'[p].blPayload[1].is_company_blacklist = h'[p].blResult[1].isOnList
              /\ h'[p].natPayload[1].is_national_dnc = h'[p].natResult[1].isOnList
    ]_vars

\* C11 witness: the national checker failed, the company checker answered
\* on-list; the verdict reports the blacklist hit and the row stores it.
C11_Witness ==
    \E p \in Procs :
        /\ Returned(p)
        /\ BothTriggered(h[p])
        /\ CheckerFailed(h[p].natResult)
        /\ h[p].blResult # <<>> /\ h[p].blResult[1] = [isOnList |-> True, failed |-> FALSE]
        /\ h[p].blWrite = True
        /\ h[p].result[1].isBlacklist = True
        /\ h[p].result[1].isNationalDnc = False
        /\ \E row \in cache : row.phone = h[p].phone /\ row.is_company_blacklist = True

\* What the properties mean by old and recent: a timestamp is older than the
\* window when more than that many days have passed since, within it
\* otherwise; a null timestamp is neither.
OlderThan(ts, days) == ts # NullTs /\ now - ts > Days(days)
Within(ts, days) == ts # NullTs /\ now - ts <= Days(days)

\* The step in which the cron's deleteOldEntries call settles.
SweepStep == cron.pc = "deleting" /\ cron'.pc # "deleting"

NullOrOlder(ts, days) == ts = NullTs \/ OlderThan(ts, days)

\* C13: a sweep the store executed deletes every row that is itself older
\* than the window (last written before it) and in which each checked-at
\* timestamp is null or older than the window.
C13_SweepDeletesPartialRows ==
    [][(SweepStep /\ cron'.swept) =>
        \A row \in cache :
            (/\ OlderThan(row.updated_at, RETENTION_DAYS)
             /\ NullOrOlder(row.blacklist_checked_at, RETENTION_DAYS)
             /\ NullOrOlder(row.national_checked_at, RETENTION_DAYS)) => row \notin cache'
    ]_vars

BlacklistFields == {"is_company_blacklist", "blacklist_checked_at"}
NationalFields ==
    {"is_national_dnc", "national_dnc_reason", "national_dnc_expiry", "national_checked_at"}

\* The values a new row has in the columns an upsert does not send.
ColumnDefault(f) ==
    CASE f \in {"is_company_blacklist", "is_national_dnc"} -> False
      [] f \in {"national_dnc_reason", "national_dnc_expiry"} -> Null
      [] OTHER -> NullTs

\* rowsAfter is rowsBefore with the payload's columns written for its phone:
\* one row for the phone, the payload's columns as sent, the columns in kept
\* as they were (defaults when the row is new), other phones untouched.
WroteOnly(rowsBefore, rowsAfter, payload, kept) ==
    LET before == { r \in rowsBefore : r.phone = payload.phone }
        after == { r \in rowsAfter : r.phone = payload.phone }
    IN  /\ Cardinality(after) = 1
        /\ Cardinality(before) <= 1
        /\ rowsAfter \ after = rowsBefore \ before
        /\ \A a \in after :
              /\ \A f \in DOMAIN payload : a[f] = payload[f]
              /\ \A f \in kept :
                    /\ before = {} => a[f] = ColumnDefault(f)
                    /\ \A b \in before : a[f] = b[f]

\* C14: a stored updateBlacklist writes the blacklist columns (and
\* updated_at) and leaves the four national columns as they were, at their
\* defaults when it creates the row; a stored updateNational writes the
\* national columns and leaves the blacklist columns; a write that was not
\* stored changes nothing.
C14_DisjointUpserts ==
    [][\A p \in Procs :
        /\ (h[p].blCall = "writing" /\ h'[p].blCall = "settled") =>
              IF h'[p].blWrite = True
              THEN /\ WroteOnly(cache, cache', h[p].blPayload[1], NationalFields)
                   /\ DOMAIN h[p].blPayload[1] =
                         {"phone", "updated_at"} \cup BlacklistFields
              ELSE cache' = cache
        /\ (h[p].natCall = "writing" /\ h'[p].natCall = "settled") =>
              IF h'[p].natWrite = True
              THEN /\ WroteOnly(cache, cache', h[p].natPayload[1], BlacklistFields)
                   /\ DOMAIN h[p].natPayload[1] =
                         {"phone", "updated_at"} \cup NationalFields
              ELSE cache' = cache
    ]_vars

\* C14 witness: a round that served the blacklist from a row flagging the
\* phone stored a national result on that row; the row still flags the
\* phone on the blacklist, with the check time it was read with.
C14_Witness ==
    \E p \in Procs :
        /\ h[p].natCall = "settled" /\ h[p].natWrite = True
        /\ h[p].blCall = "none"
        /\ h[p].cached # {}
        /\ RowRead(h[p]).is_company_blacklist = True
        /\ RowRead(h[p]).national_checked_at # h[p].natPayload[1].national_checked_at
        /\ \E row \in cache :
              /\ row.phone = h[p].phone
              /\ row.is_company_blacklist = True
              /\ row.blacklist_checked_at = RowRead(h[p]).blacklist_checked_at
              /\ row.national_checked_at = h[p].natPayload[1].national_checked_at

\* A row without the bookkeeping column both writes set.
ListColumns(row) == [f \in {"phone"} \cup BlacklistFields \cup NationalFields |-> row[f]]
ListView(rows) == { ListColumns(r) : r \in rows }

\* rows holds one row for the phone, with the blacklist columns of bl and
\* the national columns of nat.
HoldsBoth(rows, bl, nat) ==
    LET mine == { r \in rows : r.phone = bl.phone }
    IN  /\ Cardinality(mine) = 1
        /\ \A r \in mine :
              /\ \A f \in BlacklistFields : r[f] = bl[f]
              /\ \A f \in NationalFields : r[f] = nat[f]

\* C15: whenever a round has both cache writes outstanding, storing them in
\* either order gives the same list columns, blacklist columns from the
\* blacklist write and national columns from the national write, whether or
\* not the phone had a row; and in every execution, once the second of the
\* two writes is stored the row holds both.
C15_WritesCommute ==
    [][\A p \in Procs :
        /\ (h'[p].blCall = "writing" /\ h'[p].natCall = "writing") =>
              LET bl == h'[p].blPayload[1]
                  nat == h'[p].natPayload[1]
                  blFirst == Upsert(Upsert(cache', bl), nat)
                  natFirst == Upsert(Upsert(cache', nat), bl)
              IN  /\ ListView(blFirst) = ListView(natFirst)
                  /\ HoldsBoth(blFirst, bl, nat)
                  /\ HoldsBoth(natFirst, bl, nat)
        /\ (/\ h[p].blCall = "writing" \/ h[p].natCall = "writing"
            /\ h'[p].blCall = "settled" /\ h'[p].natCall = "settled"
            /\ h'[p].blWrite = True /\ h'[p].natWrite = True) =>
              HoldsBoth(cache', h'[p].blPayload[1], h'[p].natPayload[1])
    ]_vars

\* C15 witness: both writes of a round are outstanding, built at different
\* times, and the phone has no row yet.
C15_Witness ==
    \E p \in Procs :
        /\ h[p].blCall = "writing" /\ h[p].natCall = "writing"
        /\ RowsFor(h[p].phone) = {}
        /\ h[p].blPayload[1].blacklist_checked_at # h[p].natPayload[1].national_checked_at
        /\ h[p].blPayload[1].is_company_blacklist = True
        /\ h[p].natPayload[1].is_national_dnc = True

\* C15 witness, executed: the national write was stored before the
\* blacklist write of the same round, and the row holds both.
C15_WitnessNationalFirst ==
    \E p \in Procs :
        /\ h[p].blCall = "settled" /\ h[p].natCall = "settled"
        /\ h[p].blWrite = True /\ h[p].natWrite = True
        /\ h[p].blPayload[1].blacklist_checked_at < h[p].natPayload[1].national_checked_at
        /\ \E row \in cache :
              /\ row.phone = h[p].phone
              /\ row.updated_at = h[p].blPayload[1].updated_at
              /\ row.national_checked_at = h[p].natPayload[1].national_checked_at

\* checkDnc itself emitted a log record (the handler's skip record aside).
Logged(r) == r.log # <<>> /\ r.log[1].cache_status # "skipped_tagged"

\* C16: whenever checkDnc has returned its verdict or emitted its log
\* record, every checker it triggered has resolved and the cache write that
\* followed has settled (stored or failed); no chain is pending or writing.
C16_VerdictAfterAllSettled ==
    \A p \in Procs :
        (h[p].result # <<>> \/ Logged(h[p])) =>
            /\ h[p].result # <<>> /\ Logged(h[p])
            /\ h[p].blCall \notin {"pending", "writing"}
            /\ h[p].natCall \notin {"pending", "writing"}
            /\ "blacklistAPI" \in h[p].io =>
                  /\ h[p].blCall = "settled"
                  /\ h[p].blResult # <<>>
                  /\ h[p].blWrite \in {True, False}
            /\ "nationalAPI" \in h[p].io =>
                  /\ h[p].natCall = "settled"
                  /\ h[p].natResult # <<>>
                  /\ h[p].natWrite \in {True, False}

\* C16 witness: a verdict returned after both checkers were triggered, the
\* blacklist write stored and the national write failed.
C16_Witness ==
    \E p \in Procs :
        /\ Returned(p) /\ Logged(h[p])
        /\ BothTriggered(h[p])
        /\ h[p].blWrite = True
        /\ h[p].natWrite = False
        /\ h[p].log[1].cache_status = "miss"

\* TTL values the freshness function is tried with.
TtlRange == {1, 6, 12, 24}

\* C17: isFresh(null, ttl) is false for every ttl; for every checkedAt <= now
\* isFresh(checkedAt, ttl) is true exactly when now - checkedAt < ttl, so an
\* age equal to the TTL is stale; and checkDnc decides each list's freshness
\* from that list's timestamp and that list's own TTL setting only.
C17_FreshnessTtlCorrect ==
    [][\A p \in Procs :
        ReadStep(p) =>
            /\ \A ttl \in TtlRange :
                  /\ ~isFresh(NullTs, ttl)
                  /\ \A checkedAt \in 0..now :
                        isFresh(checkedAt, ttl) = (now - checkedAt < ttl)
                  /\ now >= ttl => ~isFresh(now - ttl, ttl)
            /\ BLACKLIST_TTL_HOURS = ConfiguredTtl(env.DNC_CACHE_TTL_BLACKLIST_HOURS)
            /\ NATIONAL_TTL_HOURS = ConfiguredTtl(env.DNC_CACHE_TTL_NATIONAL_HOURS)
            /\ h'[p].cached # {} =>
                  LET row == RowRead(h'[p])
                  IN  /\ h'[p].blacklistFresh = BlacklistEntryFresh(row)
                      /\ h'[p].nationalFresh = NationalEntryFresh(row)
    ]_vars

\* C17 witness: the two lists were checked at the same time, the blacklist
\* TTL is 6 hours and the national TTL 12; six hours later the blacklist
\* entry, as old as its TTL exactly, is stale and the national entry fresh.
C17_Witness ==
    \E p \in Procs :
        /\ h[p].pc = "apiCalls"
        /\ h[p].cached # {}
        /\ RowRead(h[p]).blacklist_checked_at = RowRead(h[p]).national_checked_at
        /\ RowRead(h[p]).blacklist_checked_at # NullTs
        /\ now - RowRead(h[p]).blacklist_checked_at = BLACKLIST_TTL_HOURS
        /\ BLACKLIST_TTL_HOURS < NATIONAL_TTL_HOURS
        /\ ~h[p].blacklistFresh
        /\ h[p].nationalFresh

\* C18: when the cache read fails, checkDnc holds no row, treats neither
\* list as fresh, calls both checkers, and the verdict of that round reports
\* both FromCache flags false.
C18_ReadFailureIsMiss ==
    [][\A p \in Procs :
        /\ (ReadStep(p) /\ h'[p].readFailed) =>
              /\ h'[p].cached = {}
              /\ ~h'[p].blacklistFresh /\ ~h'[p].nationalFresh
              /\ CheckersCalled(h'[p]) = {"blacklistAPI", "nationalAPI"}
              /\ h'[p].blCall = "pending" /\ h'[p].natCall = "pending"
              /\ h'[p].result = <<>>
        /\ (ReturnStep(p) /\ h'[p].readFailed) =>
              /\ ~h'[p].result[1].blacklistFromCache
              /\ ~h'[p].result[1].nationalFromCache
              /\ h'[p].log[1].cache_status = "miss"
              /\ h'[p].blResult # <<>> /\ h'[p].natResult # <<>>
    ]_vars

\* C18 witness: the store holds a row for the phone from an earlier round,
\* both entries fresh; the read of it failed, both checkers ran (the writes
\* of this round failed too) and the verdict has both FromCache flags false.
C18_Witness ==
    \E p \in Procs :
        /\ Returned(p)
        /\ h[p].readFailed
        /\ h[p].blWrite = False /\ h[p].natWrite = False
        /\ \E row \in cache :
              /\ row.phone = h[p].phone
              /\ BlacklistEntryFresh(row) /\ NationalEntryFresh(row)
        /\ BothTriggered(h[p])
        /\ ~h[p].result[1].blacklistFromCache
        /\ ~h[p].result[1].nationalFromCache

\* The verdict of a round reports the live result of a list whose write
\* failed: once the round's chains have settled the verdict is returned and
\* its flag for the list is the checker's result.
LiveResultReturned(r) ==
    (r.blCall \in {"none", "settled"} /\ r.natCall \in {"none", "settled"}) =>
        /\ r.blWrite = False =>
              /\ r.result # <<>>
              /\ r.result[1].isBlacklist = r.blResult[1].isOnList
              /\ ~r.result[1].blacklistFromCache
        /\ r.natWrite = False =>
              /\ r.result # <<>>
              /\ r.result[1].isNationalDnc = r.natResult[1].isOnList
              /\ ~r.result[1].nationalFromCache

\* The checkDnc whose read settles in this step treats the list as stale
\* and invokes its checker.
RecheckedBlacklist(p) == ~h'[p].blacklistFresh /\ "blacklistAPI" \in h'[p].io
RecheckedNational(p) == ~h'[p].nationalFresh /\ "nationalAPI" \in h'[p].io

RefreshAttempted(r) ==
    r.pc \in {"refreshGet", "refreshCall", "refreshUpdate", "refreshReread"}
    \/ r.failed \/ r.tokens # <<>>

\* C30: getValidAccessToken refreshes the token when the row it read is
\* expired or within 5 minutes of expiry, and only then; it returns null
\* when there is no active installation and when the token is expired and
\* the refresh fails; it returns the current token when the token is only
\* expiring soon and the refresh fails; a token it returns was not yet
\* expired at the minute its row was read.
C30_TokenValidity ==
    /\ (g.pc # "idle" /\ g.installation # <<>>) =>
          (RefreshAttempted(g) <=>
              g.readAt >= g.installation[1].expires_at - REFRESH_BUFFER_MINUTES)
    /\ (g.pc # "idle" /\ g.installation # <<>>) =>
          (g.expired <=> g.readAt >= g.installation[1].expires_at)
    /\ g.pc = "returned" =>
          /\ g.installation = <<>> => (g.result = <<>> /\ ~RefreshAttempted(g))
          /\ (g.expired /\ g.failed) => g.result = <<>>
          /\ (g.installation # <<>> /\ ~g.expired /\ g.failed) =>
                /\ g.result = <<g.installation[1].access_token>>
                /\ g.source = <<[expires_at |-> g.installation[1].expires_at,
                                 readAt |-> g.readAt]>>
          /\ (g.installation # <<>> /\ ~g.failed /\ g.tokens # <<>>) =>
                g.result = <<g.tokens[1].access_token>>
          /\ g.result # <<>> => g.source[1].readAt < g.source[1].expires_at

\* C30 witness: the token was within 5 minutes of expiry when read, the
\* refresh failed, and the current token was returned after it had expired.
C30_Witness ==
    /\ g.pc = "returned"
    /\ ~g.expired /\ g.failed
    /\ g.result = <<0>>
    /\ minute >= g.installation[1].expires_at

\* C30 witness: an expired token whose refresh failed gives null.
C30_WitnessExpired ==
    /\ g.pc = "returned"
    /\ g.expired /\ g.failed
    /\ g.result = <<>>

\* C30 witness: an expired token was refreshed and the new token returned.
C30_WitnessRefreshed ==
    /\ g.pc = "returned"
    /\ g.expired /\ ~g.failed
    /\ g.result = <<1>>
    /\ installations[1].access_token = 1

\* An invocation that issued the PUT of updateContactDNC and has answered.
FlaggingDone(r) == r.pc = "responded" /\ "putContact" \in r.io

\* C21: a flagging update issues one PUT and no more; when the PUT fails
\* (non-success answer or exception) the update reports false, which the
\* handler passes on as contactUpdated, and the contact is left as it was;
\* true is reported only for a contact that carries the merged tags and DND.
C21_FlaggingWriteFailure ==
    \A p \in Procs :
        /\ h[p].puts <= 1
        /\ h[p].pc = "putContact" => h[p].puts = 1
        /\ FlaggingDone(h[p]) =>
              /\ h[p].puts = 1
              /\ h[p].resp = Response(200, FALSE, "flagged")
              /\ h[p].updated \in {True, False}
              /\ h[p].updated = True =>
                    (contact.tags = h[p].mergedTags /\ contact.dnd)
              /\ h[p].updated = False => contact.tags = h[p].crmBefore[1]
              /\ ~contact.dnd => h[p].updated = False

\* C21 witness: the PUT for a contact that had never been flagged failed;
\* the update reported false after one request and the contact is unchanged.
C21_Witness ==
    \E p \in Procs :
        /\ FlaggingDone(h[p])
        /\ h[p].updated = False
        /\ h[p].puts = 1
        /\ h[p].mergedTags = <<"vip", DNC_TAG_USHEALTH>>
        /\ contact.tags = <<"vip">>
        /\ ~contact.dnd

\* The DNC tags among a list of tags.
DncTagsOf(tags) == TagSet(tags) \cap {DNC_TAG_USHEALTH, DNC_TAG_NATIONAL}

\* The contact is as a successful flagging update with these new tags left
\* it: DND set on the contact and both channels, the DNC tags exactly these.
FlaggedWith(c, newTags) ==
    /\ c.dnd
    /\ c.dndSettings = PutBody(<<>>).dndSettings
    /\ DncTagsOf(c.tags) = TagSet(newTags)

\* C22: a flagging update applied to a contact that the previous update
\* with the same verdict has left flagged (nothing else having written in
\* between) leaves the contact's tag set and DND state as they were.
C22_FlaggingIdempotent ==
    [][\A p \in Procs :
        (h[p].pc = "putContact" /\ h'[p].updated = True
           /\ FlaggedWith(contact, h[p].newTags)) =>
            /\ TagSet(contact'.tags) = TagSet(contact.tags)
            /\ contact'.dnd = contact.dnd
            /\ contact'.dndSettings = contact.dndSettings
    ]_vars

\* C23: the contact update is issued exactly for a verdict that flags at
\* least one list, whether the verdict came from live checks or entirely
\* from the cache, and never for a delivery that was skipped; its new tags
\* hold DNC-USHEALTH exactly when isBlacklist is true and DNC-NATIONAL
\* exactly when isNationalDnc is true; a successful update leaves DND set on
\* the contact and on its SMS and Call channels.
C23_FlaggingGatedOnVerdict ==
    \A p \in Procs :
        /\ h[p].result # <<>> =>
              LET res == h[p].result[1]
                  flags == res.isBlacklist = True \/ res.isNationalDnc = True
              IN  /\ flags <=> h[p].pc = "getExistingTags"
                  /\ ~flags =>
                        /\ h[p].pc = "responded"
                        /\ h[p].resp = Response(200, FALSE, "clean")
                        /\ h[p].newTags = <<>>
                  /\ DNC_TAG_USHEALTH \in TagSet(h[p].newTags) <=> res.isBlacklist = True
                  /\ DNC_TAG_NATIONAL \in TagSet(h[p].newTags) <=> res.isNationalDnc = True
                  /\ TagSet(h[p].newTags) \subseteq {DNC_TAG_USHEALTH, DNC_TAG_NATIONAL}
                  /\ h[p].puts = 0
        /\ (h[p].puts > 0 \/ h[p].io \cap {"getExistingTags", "putContact"} # {}) <=>
              h[p].pc \in {"putContact", "responded"} /\ h[p].newTags # <<>>
        /\ h[p].newTags # <<>> => "cacheGet" \in h[p].io
        /\ (h[p].pc = "responded" /\ h[p].resp[1].skipped) =>
              (h[p].newTags = <<>> /\ h[p].puts = 0)
        /\ h[p].pc \in {"putContact", "responded"} =>
              TagSet(h[p].newTags) \subseteq TagSet(h[p].mergedTags)
        /\ (FlaggingDone(h[p]) /\ h[p].updated = True) =>
              /\ contact.dnd
              /\ contact.dndSettings.SMS = "active"
              /\ contact.dndSettings.Call = "active"

\* C23 witness: a verdict served entirely from the cache flags the company
\* blacklist only; the update is being issued with the tag DNC-USHEALTH.
C23_Witness ==
    \E p \in Procs :
        /\ h[p].pc = "getExistingTags"
        /\ h[p].result # <<>>
        /\ h[p].result[1].blacklistFromCache /\ h[p].result[1].nationalFromCache
        /\ h[p].result[1].isBlacklist = True /\ h[p].result[1].isNationalDnc = False
        /\ h[p].newTags = <<DNC_TAG_USHEALTH>>
        /\ "blacklistAPI" \notin h[p].io /\ "nationalAPI" \notin h[p].io

\* The last call was one of a list checker.
CheckerCalled == unit # <<>> /\ unit[1].fn \in {"checkCompanyBlacklistAPI", "checkNationalDNCAPI"}

\* The value of the on-list indicator in a response: isOnCompanyBlacklist
\* for the company list, contactStatus.canContact for the national one.
Indicator(u) ==
    IF u.fn = "checkCompanyBlacklistAPI" THEN u.resp.isOnCompanyBlacklist
    ELSE u.resp.canContact

\* The three degraded shapes: a body lacking the indicator, a non-success
\* HTTP response, a transport failure.
Degraded(u) == u.resp.kind \in {"http", "throw"} \/ Indicator(u) = Undefined

\* C24: each list checker resolves with a result whose isOnList is a
\* boolean; for each degraded shape isOnList is false and the error field
\* is populated; the company checker reports on-list only for
\* isOnCompanyBlacklist === true and the national checker only for
\* contactStatus.canContact === false.
C24_CheckerNormalisation ==
    CheckerCalled =>
        LET u == unit[1]
        IN  /\ u.result.isOnList \in {True, False}
            /\ Degraded(u) => (u.result.isOnList = False /\ u.result.error # Undefined)
            /\ u.fn = "checkCompanyBlacklistAPI" =>
                  (u.result.isOnList = True <=>
                      (u.resp.kind = "ok" /\ u.resp.isOnCompanyBlacklist = True))
            /\ u.fn = "checkNationalDNCAPI" =>
                  (u.result.isOnList = True <=>
                      (u.resp.kind = "ok" /\ u.resp.canContact = False))

\* C25: the log record of checkDnc has cache_status hit when both lists
\* were fresh at the cache read, partial when exactly one was and miss when
\* neither was; blacklist_cached and national_cached are those two
\* booleans.  A list was fresh exactly when its checker was not invoked, so
\* the record is the same whatever the checkers and the cache writes of the
\* round resulted in.
C25_CacheStatusClassification ==
    \A p \in Procs :
        /\ h[p].pc = "apiCalls" =>
              /\ h[p].blacklistFresh <=> "blacklistAPI" \notin h[p].io
              /\ h[p].nationalFresh <=> "nationalAPI" \notin h[p].io
        /\ Logged(h[p]) =>
              LET lg == h[p].log[1]
                  blFresh == "blacklistAPI" \notin h[p].io
                  natFresh == "nationalAPI" \notin h[p].io
              IN  /\ lg.event = "dnc_check"
                  /\ lg.cache_status = "hit" <=> (blFresh /\ natFresh)
                  /\ lg.cache_status = "partial" <=> (blFresh # natFresh)
                  /\ lg.cache_status = "miss" <=> (~blFresh /\ ~natFresh)
                  /\ lg.blacklist_cached = blFresh
                  /\ lg.national_cached = natFresh
                  /\ h[p].blacklistFresh = blFresh
                  /\ h[p].nationalFresh = natFresh

\* C25 witness: the blacklist entry was fresh and the national checker,
\* invoked for the stale entry, failed; the record says partial.
C25_Witness ==
    \E p \in Procs :
        /\ Logged(h[p])
        /\ h[p].log[1].cache_status = "partial"
        /\ h[p].log[1].blacklist_cached /\ ~h[p].log[1].national_cached
        /\ h[p].natResult # <<>> /\ h[p].natResult[1].failed
        /\ h[p].blResult = <<>>

\* The last call was one of an emitter of dnc_check log records.
LogEmitted == unit # <<>> /\ unit[1].fn \in {"logDncCheck", "skipped_tagged"}

\* The last four characters of a phone, all of it when it has no more.
LastFour(phone) ==
    IF Len(phone) <= 4 THEN phone ELSE SubSeq(phone, Len(phone) - 3, Len(phone))

Mask == <<"*", "*", "*">>

\* C26: in every dnc_check log record, from checkDnc and from the
\* already-tagged skip, the phone field is the fixed mask followed by the
\* last 4 characters of the phone and is never the mask followed by the
\* full number; phones sharing their last 4 characters give the same field.
C26_PhoneRedaction ==
    LogEmitted =>
        LET phone == unit[1].phone
            field == unit[1].log.phone
        IN  /\ unit[1].log.event = "dnc_check"
            /\ field = Mask \o LastFour(phone)
            /\ field # Mask \o phone
            /\ \A q \in Phones :
                  LastFour(q) = LastFour(phone) => RedactPhone(q) = field

\* C27: when getValidAccessToken gives no token for the event's tenant the
\* handler answers at once with 200, skipped and the reason no_token; the
\* invocation has issued no contact fetch, no cache read or write, no
\* checker call and no contact write, holds no verdict and no log record,
\* and asks for the token once only.  Every invocation that goes on holds
\* a token.
C27_NoTokenSkipsEvent ==
    \A p \in Procs :
        /\ h[p].accessToken = Null =>
              /\ h[p].pc = "responded"
              /\ h[p].resp = Response(200, TRUE, "no_token")
              /\ h[p].io = {}
              /\ h[p].puts = 0
              /\ h[p].result = <<>> /\ h[p].log = <<>>
              /\ h[p].cached = {} /\ h[p].newTags = <<>>
        /\ (h[p].pc # "idle" /\ h[p].io # {}) => h[p].accessToken = "token"
        /\ (h[p].pc = "responded" /\ h[p].resp[1].reason = "no_token") =>
              h[p].accessToken = Null

\* C27 witness: an OutboundMessage delivery was skipped for want of a token
\* while the store holds a row of an earlier check, left as it was.
C27_Witness ==
    \E p \in Procs :
        /\ h[p].pc = "responded"
        /\ h[p].type = "OutboundMessage"
        /\ h[p].accessToken = Null
        /\ h[p].resp = Response(200, TRUE, "no_token")
        /\ cache # {}

\* What the store holds of a list for a phone: the list's columns of the
\* phone's row, the column defaults when there is no row.
ListEntry(rows, phone, fields) ==
    LET mine == { r \in rows : r.phone = phone }
    IN  IF mine = {} THEN [f \in fields |-> ColumnDefault(f)]
        ELSE LET row == CHOOSE r \in mine : TRUE IN [f \in fields |-> row[f]]

\* C28: a step changes what the store holds of a list for a phone (its
\* flag, its checked-at timestamp) only as the cache write of an invocation
\* of checkDnc for that phone that found the list stale or missing at its
\* cache read and invoked the list's checker; no step of checkDnc removes a
\* row; a row leaves the store only in the retention sweep.
C28_CheckedAtRecordsLiveQueries ==
    [][cache' # cache =>
       /\ (\E row \in cache : \A r \in cache' : r.phone # row.phone) => SweepStep
       /\ \A phone \in {PhoneA, PhoneB} :
            /\ ListEntry(cache', phone, BlacklistFields)
                  # ListEntry(cache, phone, BlacklistFields) =>
                  \/ SweepStep
                  \/ \E p \in Procs :
                        /\ h[p].phone = phone
                        /\ h[p].blCall = "writing" /\ h'[p].blCall = "settled"
                        /\ "blacklistAPI" \in h[p].io
                        /\ ~h[p].blacklistFresh
                        /\ h[p].cached = {} \/ ~BlacklistEntryFresh(RowRead(h[p]))
                        /\ ListEntry(cache', phone, BlacklistFields)
                              = [f \in BlacklistFields |-> h[p].blPayload[1][f]]
            /\ ListEntry(cache', phone, NationalFields)
                  # ListEntry(cache, phone, NationalFields) =>
                  \/ SweepStep
                  \/ \E p \in Procs :
                        /\ h[p].phone = phone
                        /\ h[p].natCall = "writing" /\ h'[p].natCall = "settled"
                        /\ "nationalAPI" \in h[p].io
                        /\ ~h[p].nationalFresh
                        /\ h[p].cached = {} \/ ~NationalEntryFresh(RowRead(h[p]))
                        /\ ListEntry(cache', phone, NationalFields)
                              = [f \in NationalFields |-> h[p].natPayload[1][f]]
    ]_vars

\* C28 witness: the round read a row whose blacklist entry was stale and
\* whose national entry was fresh; it has returned, the blacklist entry
\* carries the time of the new check and the national entry is as read.
C28_Witness ==
    \E p \in Procs : \E row \in cache :
        /\ Returned(p)
        /\ row.phone = h[p].phone
        /\ h[p].result[1].nationalFromCache /\ ~h[p].result[1].blacklistFromCache
        /\ h[p].blWrite = True
        /\ h[p].cached # {}
        /\ RowRead(h[p]).blacklist_checked_at # NullTs
        /\ row.blacklist_checked_at > RowRead(h[p]).blacklist_checked_at
        /\ ListEntry(cache, h[p].phone, NationalFields)
              = [f \in NationalFields |-> RowRead(h[p])[f]]

\* C29: a POST delivery of a ContactCreate event (each one here carries the
\* new contact's phone) is processed like an OutboundMessage one: it is not
\* answered as skipped for its type, and the DNC check runs for it, on the
\* phone of the payload, without the contact being fetched first.
C29_ContactCreateProcessed ==
    \A p \in Procs :
        (h[p].pc = "responded" /\ h[p].type = "ContactCreate") =>
            /\ h[p].resp # Response(200, TRUE, Undefined)
            /\ "cacheGet" \in h[p].io
            /\ "getContact" \notin h[p].io

\* C31: a proxied request that the provider rejects with 401 because the
\* access token is expired is sent again after a refresh instead of being
\* answered to the client as a failure.
C31_ProxyAutoRetry ==
    (px.pc = "responded" /\ px.rejected) =>
        (px.requests > 1 /\ px.resp # <<401>>)

\* C32: the store executes the cleanup handler's delete only for a request
\* whose Authorization header carries the configured cron secret, in every
\* configuration: with CRON_SECRET unset no request is let through.
C32_CronAuthentication ==
    cron.swept =>
        /\ env.CRON_SECRET # <<>>
        /\ cron.authorization # <<>>
        /\ CronSecretOf(cron.authorization) = env.CRON_SECRET

\* The step in which a checker's failure resolves and its cache write is
\* issued, and the step in which that write settles.
BlacklistFailureResolves(p) ==
    h[p].blCall = "pending" /\ h'[p].blCall = "writing" /\ h'[p].blResult[1].failed
NationalFailureResolves(p) ==
    h[p].natCall = "pending" /\ h'[p].natCall = "writing" /\ h'[p].natResult[1].failed
BlacklistFailureWritten(p) ==
    h[p].blCall = "writing" /\ h'[p].blCall = "settled" /\ h[p].blResult[1].failed
NationalFailureWritten(p) ==
    h[p].natCall = "writing" /\ h'[p].natCall = "settled" /\ h[p].natResult[1].failed

\* After the step the store holds false for the list, checked at the time
\* the payload carries.
HoldsCleanBlacklist(p) ==
    \E row \in cache' :
        /\ row.phone = h[p].phone
        /\ row.is_company_blacklist = False
        /\ row.blacklist_checked_at = h[p].blPayload[1].blacklist_checked_at
HoldsCleanNational(p) ==
    \E row \in cache' :
        /\ row.phone = h[p].phone
        /\ row.is_national_dnc = False
        /\ row.national_checked_at = h[p].natPayload[1].national_checked_at

\* The store's entry of the list for the phone is within the list's TTL.
WithinBlacklistTtl(phone) == \E row \in RowsFor(phone) : BlacklistEntryFresh(row)
WithinNationalTtl(phone) == \E row \in RowsFor(phone) : NationalEntryFresh(row)

\* The checkDnc whose read settles in this step serves false for the list
\* from the cache and does not invoke the list's checker.
ServedCleanBlacklist(p) ==
    /\ h'[p].blacklistFresh
    /\ "blacklistAPI" \notin h'[p].io
    /\ h'[p].isBlacklist = False
    /\ h'[p].result # <<>> =>
          h'[p].result[1].blacklistFromCache /\ h'[p].result[1].isBlacklist = False
ServedCleanNational(p) ==
    /\ h'[p].nationalFresh
    /\ "nationalAPI" \notin h'[p].io
    /\ h'[p].isNationalDnc = False
    /\ h'[p].result # <<>> =>
          h'[p].result[1].nationalFromCache /\ h'[p].result[1].isNationalDnc = False

\* The verdict returned in this step reports each list served from the
\* cache as such, with the flag false.
ReturnedCleanFromCache(p) ==
    /\ h'[p].blacklistFresh =>
          h'[p].result[1].blacklistFromCache /\ h'[p].result[1].isBlacklist = False
    /\ h'[p].nationalFresh =>
          h'[p].result[1].nationalFromCache /\ h'[p].result[1].isNationalDnc = False

BlacklistStored(p) ==
    h[p].blCall = "writing" /\ h'[p].blCall = "settled" /\ h'[p].blWrite = True
NationalStored(p) ==
    h[p].natCall = "writing" /\ h'[p].natCall = "settled" /\ h'[p].natWrite = True

\* After the step the store's entry of the list is what the invocation's
\* write carried: its checker's result, with a checked-at.
BlacklistEntryIsFrom(p) ==
    /\ ListEntry(cache', h[p].phone, BlacklistFields)
          = [f \in BlacklistFields |-> h[p].blPayload[1][f]]
    /\ h[p].blPayload[1].is_company_blacklist = h[p].blResult[1].isOnList
    /\ h[p].blPayload[1].blacklist_checked_at # NullTs
NationalEntryIsFrom(p) ==
    /\ ListEntry(cache', h[p].phone, NationalFields)
          = [f \in NationalFields |-> h[p].natPayload[1][f]]
    /\ h[p].natPayload[1].is_national_dnc = h[p].natResult[1].isOnList
    /\ h[p].natPayload[1].national_checked_at # NullTs

\* C34: under every interleaving of concurrent checkDnc invocations on one
\* phone, each invocation that read a stale list calls that list's checker
\* itself, the store never holds more than one row for a phone, every
\* stored write leaves the list's entry equal to the writer's result with a
\* non-null checked-at, and the entry changes in no other step: what the
\* store holds once all have finished is the last writer's result.
C34_OneRowPerPhone ==
    [][/\ \A phone \in {PhoneA, PhoneB} : Cardinality(RowsAfterFor(phone)) <= 1
       /\ \A p \in Procs :
            /\ ReadStep(p) =>
                  /\ ~h'[p].blacklistFresh => "blacklistAPI" \in h'[p].io
                  /\ ~h'[p].nationalFresh => "nationalAPI" \in h'[p].io
            /\ BlacklistStored(p) => BlacklistEntryIsFrom(p)
            /\ NationalStored(p) => NationalEntryIsFrom(p)
       /\ \A phone \in {PhoneA, PhoneB} :
            /\ ListEntry(cache', phone, BlacklistFields)
                  # ListEntry(cache, phone, BlacklistFields) =>
                  \E p \in Procs : h[p].phone = phone /\ BlacklistStored(p)
            /\ ListEntry(cache', phone, NationalFields)
                  # ListEntry(cache, phone, NationalFields) =>
                  \E p \in Procs : h[p].phone = phone /\ NationalStored(p)
    ]_vars

\* C34 witness: two invocations have each called the company-blacklist
\* checker for the phone, got different results and stored them; the store
\* holds one row for the phone, with the flag one of them wrote.
C34_Witness ==
    \E p, q \in Procs :
        /\ p # q
        /\ h[p].phone = h[q].phone
        /\ h[p].blWrite = True /\ h[q].blWrite = True
        /\ h[p].blResult[1].isOnList # h[q].blResult[1].isOnList
        /\ Cardinality(RowsFor(h[p].phone)) = 1
        /\ \E row \in RowsFor(h[p].phone) :
              /\ row.is_company_blacklist
                    \in {h[p].blResult[1].isOnList, h[q].blResult[1].isOnList}
              /\ row.blacklist_checked_at # NullTs

\* C35: once checkDnc has issued its cache read, it returns a verdict,
\* given that the read, every checker call it triggers and every cache
\* write it triggers settle; when the read finds no list stale the verdict
\* is returned in the step the read settles, no checker called and no
\* write issued.
C35_Termination ==
    /\ [][\A p \in Procs :
            (ReadStep(p) /\ h'[p].blacklistFresh /\ h'[p].nationalFresh) =>
                /\ h'[p].result # <<>>
                /\ CheckersCalled(h'[p]) = {}
                /\ CacheWrites(h'[p]) = {}
         ]_vars
    /\ \A p \in Procs : (h[p].pc = "cacheGet") ~> (h[p].result # <<>>)

\* C35 witness: checkDnc has returned after both checkers were called and
\* both cache writes have settled, one stored and one failed.
C35_Witness ==
    \E p \in Procs :
        /\ Returned(p)
        /\ CheckersCalled(h[p]) = {"blacklistAPI", "nationalAPI"}
        /\ h[p].blCall = "settled" /\ h[p].natCall = "settled"
        /\ {h[p].blWrite, h[p].natWrite} = {True, False}

\* The steps in which the handler's first part (up to the token) and its
\* contact fetch complete.
ReceiveStep(p) == h[p].pc = "idle" /\ h'[p].pc # "idle"
FetchStep(p) == h[p].pc = "fetchContact" /\ h'[p].pc # "fetchContact"

\* The invocation has answered 200 with skipped = true, and has neither
\* started checkDnc nor touched the contact.
SkippedWithoutCheck(r) ==
    /\ r.pc = "responded"
    /\ r.resp # NoResp
    /\ r.resp[1].status = 200
    /\ r.resp[1].skipped
    /\ r.io \cap {"cacheGet", "blacklistAPI", "nationalAPI", "updateBlacklist",
                  "updateNational", "putContact"} = {}
    /\ r.puts = 0

RefreshResolves == g.success = <<>> /\ g'.success # <<>>

\* The tokens the row holds.
StoredTokens(rows) ==
    [access_token |-> rows[1].access_token,
     refresh_token |-> rows[1].refresh_token,
     expires_at |-> rows[1].expires_at]

\* C37: refreshAccessToken resolves with success = true only when the
\* installation row holds the tokens the provider returned, with the expiry
\* calculated from them; it resolves with success = false when the
\* installation is missing, when the provider refresh fails and when the
\* update fails, and up to the provider call no step of it changes the
\* stored tokens.
C37_RefreshReportsPersistence ==
    [][/\ RefreshResolves =>
            /\ g'.success[1] =>
                  /\ g.tokens # <<>>
                  /\ g.tokens[1].access_token = g.current[1].refresh_token + 1
                  /\ installations' # <<>>
                  /\ StoredTokens(installations') = g.tokens[1]
            /\ g.pc = "refreshGet" => (~g'.success[1] /\ installations' = installations)
            /\ g.pc = "refreshCall" => (~g'.success[1] /\ installations' = installations)
            /\ g.pc = "refreshUpdate" => ~g'.success[1]
       /\ g.pc \in {"refreshGet", "refreshCall"} => installations' = installations
    ]_vars

\* C37 witness: a refresh has resolved with success = true and the row
\* holds the new token family with a new expiry.
C37_Witness ==
    /\ g.success = <<TRUE>>
    /\ installations # <<>>
    /\ installations[1].access_token = 1
    /\ StoredTokens(installations) = g.tokens[1]

\* C38: the tenant never has more than one installation row, and an install
\* callback whose code exchange succeeded and whose queries all succeeded,
\* for a tenant that had a row (active or deactivated) when the callback
\* looked it up, ends on the success page with that row holding the new
\* tokens.
C38_InstallationLifecycle ==
    /\ Len(installations) <= 1
    /\ (oc.pc = "responded" /\ oc.tokens # <<>> /\ oc.before # <<>> /\ ~oc.dbFailed) =>
          /\ oc.redirect = <<"success">>
          /\ installations # <<>>
          /\ StoredTokens(installations) = oc.tokens[1]

====
